---- MODULE Spec2Model ----
(***************************************************************************)
(* Customer-identity resolution and invoice-creation workflow of the       *)
(* after-school mailer servers.  Every HTTP request is a process that      *)
(* advances one awaited call (billing provider, record store) at a time;   *)
(* requests interleave at those await points.                              *)
(***************************************************************************)
EXTENDS Integers, Sequences, FiniteSets, TLC

\* ---------------------------------------------------------------- bounds
NumReqs == 2
Reqs == 1..NumReqs

\* the requests whose callers may disconnect
NumDisconnectReqs == 1
DisconnectReqs == 1..NumDisconnectReqs

\* the users of the identity provider, one more than listUsers(10) returns
NumUsers == 11
Uids == 1..NumUsers

\* the requests run against each list of customers the provider may hold, and
\* the longest such list
NumResolveReqs == 1
ResolveReqs == 1..NumResolveReqs
MaxListed == 3

\* ------------------------------------------------------ program constants
ACCOUNT_ID_HALLE == "halle_dance"
ACCOUNT_ID_STATE48 == "state48arts.org"
Accounts == {ACCOUNT_ID_HALLE, ACCOUNT_ID_STATE48}
ListLimit == 10
ListUsersMax == 10

ORG_A == "State-48-Dance"
ORG_B == "State-48-Theatre"
Orgs == {ORG_A, ORG_B}

\* ------------------------------------------------- the documents on record
NoId == 0
Students == {"s1", "s2"}
Parents == {"p1"}
StudentName(s) == IF s = "s1" THEN "Ann" ELSE "Bob"
StudentParents(s) == <<"p1">>
ParentEmail(p) == "p@x.com"

\* a customer made by hand on one account before the server ran: the second
\* student's, under the parent's email
PreCustomer == [id |-> 9, email |-> "p@x.com", name |-> "Bob", student |-> ""]

\* --------------------------------------------------------- request inputs
Tokens == {"none", "bad", "user", "admin"}
AccountInputs == Accounts \cup {"other_account"}
StudentInputs == Students \cup {"s9"}
ParentInputs == Parents \cup {"p9"}
\* amounts in thousandths of a dollar: 0, $0.004, $19.99, $19.995, $25.00
AmountInputs == {0, 4, 19990, 19995, 25000}

VARIABLES
    keys,        \* [Accounts -> BOOLEAN]: the account's secret key is set
    orgEnv,      \* [Orgs -> [key, whSecret : BOOLEAN]]: the per-org settings that are set
    adminApp,    \* BOOLEAN: the identity provider's SDK was initialised at start-up
    stripeInfo,  \* [Students -> [Accounts -> id]]: students/{id}.stripeInfo
    orgCustomers,  \* [Orgs -> [Students -> [Orgs -> id]]]: the student's stripe.customers
    customerIndex, \* [Orgs -> [ids -> student]]: stripeCustomers/{customerId}.studentId
    billing,     \* [Orgs -> [Students -> [Reqs -> status doc]]]: billing/invoices/{id}
    processed,   \* the <<org, event>> deliveries whose status write took effect
    users,       \* [Uids -> [exists, admin : BOOLEAN]]: the identity provider's users
    customers,   \* [Accounts -> Seq(customer)]: the provider's customers
    invoices,    \* [Reqs -> invoice]: the provider's invoices, by id
    items,       \* [Reqs -> item]: the provider's invoice items, by id
    req,         \* [Reqs -> the request's local variables and response]
    trace,       \* [Reqs -> Seq(call)]: the calls each request has issued, in order
    writes,      \* the store writes that took effect: [r, doc, student, key, id]
    arg,         \* the arguments of a computation made outside any request
    result       \* what that computation gave

env == <<keys, orgEnv, adminApp>>
orgStore == <<orgCustomers, customerIndex, billing>>
calc == <<arg, result>>
vars == <<keys, orgEnv, adminApp, users, stripeInfo, orgCustomers, customerIndex, billing, processed,
          customers, invoices, items, req, trace, writes, arg, result>>

\* ------------------------------------------------------------------ helpers
RECURSIVE SumAmounts(_, _)
SumAmounts(f, S) ==
    IF S = {} THEN 0
    ELSE LET x == CHOOSE y \in S : TRUE
         IN  f[x].amount + SumAmounts(f, S \ {x})

Take(s, n) == IF Len(s) <= n THEN s ELSE SubSeq(s, 1, n)

\* the error of the floating-point product parseFloat(amount) * 100, in
\* thousandths of a cent: the product is just under, at, or just over the
\* exact value
FloatErrors == {-1, 0, 1}

\* faulty variant: Math.floor(parseFloat(amount) * 100)
AmountInCentsFloor(amount, err) == (amount * 100 + err) \div 1000

\* Math.round(parseFloat(amount) * 100), the amount given in thousandths of a
\* dollar: the product in thousandths of a cent, rounded half up
AmountInCents(amount, err) == (amount * 100 + err + 500) \div 1000

\* faulty variant: one client, made with the first account's key, serves all
SharedSecretKey(accountIdentifier) == ACCOUNT_ID_HALLE

\* selectedSecretKey of getStripeInstance, named by the account it belongs to:
\* stripeSecretKeyHalleDance or stripeSecretKeyState48Arts
SelectedSecretKey(accountIdentifier) ==
    IF accountIdentifier = ACCOUNT_ID_HALLE THEN ACCOUNT_ID_HALLE
    ELSE ACCOUNT_ID_STATE48

\* const getStripeInstance = (accountIdentifier) => ...
GetStripeInstance(accountIdentifier) ==
    IF accountIdentifier \notin Accounts THEN "invalid"
    ELSE IF ~keys[accountIdentifier] THEN "missing"
    ELSE "ok"

\* the startup validation: process.exit(1) when a secret key is not set
Running == \A a \in Accounts : keys[a]

\* faulty variant: the last customer of that name is taken
FindLastByName(list, name) ==
    LET HasName(c) == c.name = name
        found == SelectSeq(list, HasName)
    IN  IF Len(found) = 0 THEN NoId ELSE found[Len(found)].id

\* stripe.customers.list({ email, limit: 10 }) on one account
CustomersList(acct, email) ==
    LET HasEmail(c) == c.email = email
    IN  Take(SelectSeq(customers[acct], HasEmail), ListLimit)

\* existingCustomers.data.find(c => c.name === customerName): its id, or NoId
FindByName(list, name) ==
    LET HasName(c) == c.name = name
        found == SelectSeq(list, HasName)
    IN  IF Len(found) = 0 THEN NoId ELSE found[1].id

\* the total the provider computes for an invoice: its attached, live items
InvoiceTotal(inv) ==
    SumAmounts(items, {i \in Reqs : items[i].status = "live" /\ items[i].invoice = inv})

\* faulty variant: the id is stored under every account of the student
UpdateStripeInfoAllAccounts(info, studentId, accountIdentifier, id) ==
    [info EXCEPT ![studentId] = [a \in Accounts |-> id]]

\* faulty variant: update({ stripeInfo: { [accountIdentifier]: id } }), which
\* replaces the whole map
UpdateStripeInfoOverwrite(info, studentId, accountIdentifier, id) ==
    [info EXCEPT ![studentId] =
        [a \in Accounts |-> IF a = accountIdentifier THEN id ELSE NoId]]

\* studentRef.update({ [`stripeInfo.${accountIdentifier}`]: id }): one field path
UpdateStripeInfo(info, studentId, accountIdentifier, id) ==
    [info EXCEPT ![studentId][accountIdentifier] = id]

\* ----------------------------------------------------------- request state
NoTask == [st |-> "none", id |-> NoId]
NoEvent == [type |-> "", customer |-> NoId, invoice |-> NoId, status |-> ""]

IdleReq ==
    [kind |-> "none", pc |-> "idle", token |-> "none", studentId |-> "",
     parentId |-> "", account |-> "", amount |-> 0, customerId |-> NoId,
     amountInCents |-> 0, stripeForAccount |-> FALSE, stripeAccount |-> "",
     stripeCustomerId |-> NoId,
     draftInvoiceId |-> NoId, createdInvoiceItemId |-> NoId,
     failedAt |-> "", status |-> 0, invoiceId |-> NoId,
     sig |-> "", event |-> NoEvent,
     tasks |-> [p \in Students \X Accounts |-> NoTask],
     disconnected |-> FALSE, uid |-> NoId, target |-> NoId]

NoInvoice == [status |-> "none", acct |-> "", customer |-> NoId]
NoItem == [status |-> "none", acct |-> "", customer |-> NoId, invoice |-> NoId, amount |-> 0]

Write(r, doc, student, key, id) ==
    [r |-> r, doc |-> doc, student |-> student, key |-> key, id |-> id]

Call(op, acct, id, ok) == [op |-> op, acct |-> acct, id |-> id, ok |-> ok]
\* an awaited call of request r, logged with its outcome
Log(r, call) == trace' = [trace EXCEPT ![r] = Append(@, call)]

\* res.status(code).json(...): the one response of the request
Respond(rec, code, invoiceId) ==
    [rec EXCEPT !.pc = "done", !.status = code, !.invoiceId = invoiceId]

\* request slots are taken in order: which slot a request gets means nothing
Free(r) == req[r].pc = "idle" /\ (IF r = 1 THEN TRUE ELSE req[r - 1].pc # "idle")

\* faulty variant: a token that fails verification is let through
AuthStatusUnverified(token, needAdmin) ==
    IF token = "none" THEN 401
    ELSE IF needAdmin /\ token # "admin" THEN 403
    ELSE 0

\* authenticateToken, then isAdmin: 0 when both call next()
AuthStatus(token, needAdmin) ==
    IF token = "none" THEN 401
    ELSE IF token = "bad" THEN 403
    ELSE IF needAdmin /\ token # "admin" THEN 403
    ELSE 0

\* authenticateToken of the server that keeps running when the SDK could not
\* be initialised, then isAdmin
AuthStatusAdminApp(token, needAdmin) ==
    IF ~adminApp THEN 500 ELSE AuthStatus(token, needAdmin)

\* faulty variant: a catch that answers without any cleanup
ThrowNoCleanup(rec, at) ==
    LET e == [rec EXCEPT !.failedAt = at]
    IN  IF e.status = 0 THEN Respond(e, 500, NoId) ELSE [e EXCEPT !.pc = "done"]

\* faulty variant: the catch block gives up when the caller has gone
ThrowAbandoned(rec, at) ==
    LET e == [rec EXCEPT !.failedAt = at]
    IN  IF e.disconnected THEN [e EXCEPT !.pc = "done"]
        ELSE IF e.stripeForAccount /\ e.createdInvoiceItemId # NoId THEN [e EXCEPT !.pc = "delItem"]
        ELSE IF e.stripeForAccount /\ e.draftInvoiceId # NoId THEN [e EXCEPT !.pc = "delDraft"]
        ELSE IF e.status = 0 THEN Respond(e, 500, NoId)
        ELSE [e EXCEPT !.pc = "done"]

\* catch (error) of /create-invoice up to its first awaited cleanup call
Throw(rec, at) ==
    LET e == [rec EXCEPT !.failedAt = at]
    IN  IF e.stripeForAccount /\ e.createdInvoiceItemId # NoId THEN [e EXCEPT !.pc = "delItem"]
        ELSE IF e.stripeForAccount /\ e.draftInvoiceId # NoId THEN [e EXCEPT !.pc = "delDraft"]
        ELSE IF e.status = 0 THEN Respond(e, 500, NoId)
        ELSE [e EXCEPT !.pc = "done"]

\* the per-org settings: all set, or the second org's Stripe key, or its
\* webhook secret, left unset
FullOrgEnv == [o \in Orgs |-> [key |-> TRUE, whSecret |-> TRUE]]
OrgEnvs ==
    {FullOrgEnv,
     [FullOrgEnv EXCEPT ![ORG_B].key = FALSE],
     [FullOrgEnv EXCEPT ![ORG_B].whSecret = FALSE]}

\* the customer ids a caller or an event names
CustomerIds == {8, 9}
NoArg == [draft |-> NoId, first |-> 0, second |-> 0]
NoResult == <<>>
NoStatusDoc == [status |-> "none", total |-> 0, amount |-> 0]

\* a student of the first org mapped before the server ran, with a customer of
\* each org on record
PreMapped == [o \in Orgs |-> IF o = ORG_A THEN 9 ELSE 8]

\* ------------------------------------------------------------------- Init
\* the records and the provider's objects when the servers start
InitRecords ==
    /\ stripeInfo = [s \in Students |-> [a \in Accounts |-> NoId]]
    /\ orgCustomers = [o \in Orgs |-> [s \in Students |->
                          IF o = ORG_A /\ s = "s2" THEN PreMapped
                          ELSE [k \in Orgs |-> NoId]]]
    /\ customerIndex = [o \in Orgs |-> [c \in CustomerIds |->
                           IF o = ORG_A /\ c = PreMapped[ORG_A] THEN "s2" ELSE ""]]
    /\ invoices = [i \in Reqs |-> NoInvoice]
    /\ items = [i \in Reqs |-> NoItem]
    /\ req = [r \in Reqs |-> IdleReq]
    /\ trace = [r \in Reqs |-> <<>>]
    /\ writes = {}

\* the provider's customers when the servers start
InitData ==
    /\ InitRecords
    /\ customers = [a \in Accounts |-> IF a = ACCOUNT_ID_STATE48 THEN <<PreCustomer>> ELSE <<>>]

\* the customers an account may hold before the server's first request: up to
\* MaxListed of them, in the provider's order, under the parent's or another
\* email, named as a student, as a student in another case, or otherwise
ListedNames == {"Ann", "ann", "Bob"}
ListedEmails == {"p@x.com", "q@x.com"}
ListedId(i) == 10 + i
CustomerLists ==
    UNION {{[i \in 1..n |-> [id |-> ListedId(i), email |-> e[i], name |-> m[i], student |-> ""]] :
               e \in [1..n -> ListedEmails], m \in [1..n -> ListedNames]} : n \in 0..MaxListed}

\* no billing event has been delivered yet
NoDeliveries ==
    /\ billing = [o \in Orgs |-> [s \in Students |-> [i \in Reqs |-> NoStatusDoc]]]
    /\ processed = {}

\* the first org's server has handled the finalization event of an invoice of
\* its mapped student
FinalizedEvent ==
    [type |-> "invoice.finalized", customer |-> PreMapped[ORG_A], invoice |-> 1,
     status |-> "open"]
OneDelivered ==
    /\ billing = [o \in Orgs |-> [s \in Students |-> [i \in Reqs |->
                     IF o = ORG_A /\ s = "s2" /\ i = FinalizedEvent.invoice
                     THEN [NoStatusDoc EXCEPT !.status = FinalizedEvent.status]
                     ELSE NoStatusDoc]]]
    /\ processed = {<<ORG_A, FinalizedEvent>>}

\* no computation outside the requests
NoCalc == arg = NoArg /\ result = NoResult

\* the identity provider's users when only the first one holds the admin claim
FirstUserAdmin == [u \in Uids |-> [exists |-> TRUE, admin |-> u = 1]]

\* the multi-account server, with any of its secret keys set or not
Init ==
    /\ keys \in [Accounts -> BOOLEAN]
    /\ orgEnv = FullOrgEnv
    /\ adminApp = TRUE
    /\ InitData
    /\ NoDeliveries
    /\ NoCalc
    /\ users = FirstUserAdmin

\* the multi-org server, under each of its settings
InitOrg ==
    /\ keys = [a \in Accounts |-> TRUE]
    /\ orgEnv \in OrgEnvs
    /\ adminApp = TRUE
    /\ InitData
    /\ NoDeliveries \/ OneDelivered
    /\ NoCalc
    /\ users = FirstUserAdmin

\* -------------------------------------- POST /create-invoice (multi-account)
ValidCreateInvoice ==
    [token |-> "admin", studentId |-> "s1", parentId |-> "p1",
     account |-> ACCOUNT_ID_HALLE, amount |-> 25000]

\* the request bodies tried: every valid (student, account) pair, and the valid
\* body with one field replaced by each of its other values
CreateInvoiceInputs ==
    {[ValidCreateInvoice EXCEPT !.studentId = s, !.account = a] : s \in Students, a \in Accounts}
    \cup {[ValidCreateInvoice EXCEPT !.token = t] : t \in Tokens}
    \cup {[ValidCreateInvoice EXCEPT !.studentId = s] : s \in StudentInputs}
    \cup {[ValidCreateInvoice EXCEPT !.parentId = p] : p \in ParentInputs}
    \cup {[ValidCreateInvoice EXCEPT !.account = a] : a \in AccountInputs}
    \cup {[ValidCreateInvoice EXCEPT !.amount = m] : m \in AmountInputs}

\* entry: middleware, validation, amountInCents, getStripeInstance
CIStart(r) ==
    /\ Running
    /\ Free(r)
    /\ \E in \in CreateInvoiceInputs, err \in FloatErrors :
        LET rec == [req[r] EXCEPT !.kind = "createInvoice", !.token = in.token,
                        !.studentId = in.studentId, !.parentId = in.parentId,
                        !.account = in.account, !.amount = in.amount]
            auth == AuthStatus(in.token, TRUE)
            cents == AmountInCents(in.amount, err)
        IN  req' = [req EXCEPT ![r] =
                IF auth # 0 THEN Respond(rec, auth, NoId)
                ELSE IF in.account \notin Accounts THEN Respond(rec, 400, NoId)
                ELSE IF in.amount <= 0 THEN Respond(rec, 400, NoId)
                ELSE IF cents = 0 /\ in.amount > 0 THEN Respond(rec, 500, NoId)
                ELSE IF GetStripeInstance(in.account) # "ok"
                     THEN Throw([rec EXCEPT !.amountInCents = cents], "getStripeInstance")
                ELSE [rec EXCEPT !.amountInCents = cents, !.stripeForAccount = TRUE,
                          !.stripeAccount = SelectedSecretKey(in.account),
                          !.pc = "studentGet"]]
    /\ UNCHANGED <<env, calc, users, processed, orgStore, stripeInfo, customers, invoices, items, trace, writes>>

\* await studentRef.get(), logged with the mapping the snapshot holds
CIStudentGet(r) ==
    /\ req[r].kind = "createInvoice" /\ req[r].pc = "studentGet"
    /\ \E ok \in BOOLEAN :
        LET rec == req[r]
            read == IF ok /\ rec.studentId \in Students
                    THEN stripeInfo[rec.studentId][rec.account] ELSE NoId
        IN  /\ Log(r, Call("students.get", rec.account, read, ok))
            /\ req' = [req EXCEPT ![r] =
                    IF ~ok \/ rec.studentId \notin Students THEN Throw(rec, "studentGet")
                    ELSE [rec EXCEPT !.pc = "parentGet",
                              !.stripeCustomerId = stripeInfo[rec.studentId][rec.account]]]
    /\ UNCHANGED <<env, calc, users, processed, orgStore, stripeInfo, customers, invoices, items, writes>>

\* faulty variant: the stored mapping is not consulted
CIParentGetNoFastPath(r) ==
    /\ req[r].kind = "createInvoice" /\ req[r].pc = "parentGet"
    /\ \E ok \in BOOLEAN :
        LET rec == req[r]
        IN  /\ Log(r, Call("parents.get", "", NoId, ok))
            /\ req' = [req EXCEPT ![r] =
                    IF ~ok \/ rec.parentId \notin Parents THEN Throw(rec, "parentGet")
                    ELSE [rec EXCEPT !.pc = "customersList"]]
    /\ UNCHANGED <<env, calc, users, processed, orgStore, stripeInfo, customers, invoices, items, writes>>

\* await parentRef.get(); then the fast path test if (!stripeCustomerId)
CIParentGet(r) ==
    /\ req[r].kind = "createInvoice" /\ req[r].pc = "parentGet"
    /\ \E ok \in BOOLEAN :
        LET rec == req[r]
        IN  /\ Log(r, Call("parents.get", "", NoId, ok))
            /\ req' = [req EXCEPT ![r] =
                    IF ~ok \/ rec.parentId \notin Parents THEN Throw(rec, "parentGet")
                    ELSE IF rec.stripeCustomerId = NoId THEN [rec EXCEPT !.pc = "customersList"]
                    ELSE [rec EXCEPT !.pc = "invoicesCreate"]]
    /\ UNCHANGED <<env, calc, users, processed, orgStore, stripeInfo, customers, invoices, items, writes>>

\* faulty variant: a customer found by the search is invoiced without its id
\* being saved
CICustomersListNoWrite(r) ==
    /\ req[r].kind = "createInvoice" /\ req[r].pc = "customersList"
    /\ \E ok \in BOOLEAN :
        LET rec == req[r]
            found == FindByName(CustomersList(rec.stripeAccount, ParentEmail(rec.parentId)),
                                StudentName(rec.studentId))
        IN  /\ Log(r, Call("customers.list", rec.stripeAccount, NoId, ok))
            /\ req' = [req EXCEPT ![r] =
                    IF ~ok THEN Throw(rec, "customersList")
                    ELSE IF found # NoId
                         THEN [rec EXCEPT !.stripeCustomerId = found, !.pc = "invoicesCreate"]
                    ELSE [rec EXCEPT !.pc = "customersCreate"]]
    /\ UNCHANGED <<env, calc, users, processed, orgStore, stripeInfo, customers, invoices, items, writes>>

\* await stripeForAccount.customers.list(...); find by name
CICustomersList(r) ==
    /\ req[r].kind = "createInvoice" /\ req[r].pc = "customersList"
    /\ \E ok \in BOOLEAN :
        LET rec == req[r]
            found == FindByName(CustomersList(rec.stripeAccount, ParentEmail(rec.parentId)),
                                StudentName(rec.studentId))
        IN  /\ Log(r, Call("customers.list", rec.stripeAccount, NoId, ok))
            /\ req' = [req EXCEPT ![r] =
                    IF ~ok THEN Throw(rec, "customersList")
                    ELSE IF found # NoId
                         THEN [rec EXCEPT !.stripeCustomerId = found, !.pc = "studentUpdate"]
                    ELSE [rec EXCEPT !.pc = "customersCreate"]]
    /\ UNCHANGED <<env, calc, users, processed, orgStore, stripeInfo, customers, invoices, items, writes>>

\* faulty variant: the customer is created without the student's name
CICustomersCreateUnnamed(r) ==
    /\ req[r].kind = "createInvoice" /\ req[r].pc = "customersCreate"
    /\ \E ok \in BOOLEAN :
        LET rec == req[r]
            customer == [id |-> r, email |-> ParentEmail(rec.parentId),
                         name |-> "", student |-> rec.studentId]
        IN  /\ Log(r, Call("customers.create", rec.stripeAccount, IF ok THEN r ELSE NoId, ok))
            /\ customers' = IF ok THEN [customers EXCEPT ![rec.stripeAccount] = Append(@, customer)]
                            ELSE customers
            /\ req' = [req EXCEPT ![r] =
                    IF ~ok THEN Throw(rec, "customersCreate")
                    ELSE [rec EXCEPT !.stripeCustomerId = r, !.pc = "studentUpdate"]]
    /\ UNCHANGED <<env, calc, users, processed, orgStore, stripeInfo, invoices, items, writes>>

\* faulty variant: the new customer's id is not saved before invoicing
CICustomersCreateNoWrite(r) ==
    /\ req[r].kind = "createInvoice" /\ req[r].pc = "customersCreate"
    /\ \E ok \in BOOLEAN :
        LET rec == req[r]
            customer == [id |-> r, email |-> ParentEmail(rec.parentId),
                         name |-> StudentName(rec.studentId), student |-> rec.studentId]
        IN  /\ Log(r, Call("customers.create", rec.stripeAccount, IF ok THEN r ELSE NoId, ok))
            /\ customers' = IF ok THEN [customers EXCEPT ![rec.stripeAccount] = Append(@, customer)]
                            ELSE customers
            /\ req' = [req EXCEPT ![r] =
                    IF ~ok THEN Throw(rec, "customersCreate")
                    ELSE [rec EXCEPT !.stripeCustomerId = r, !.pc = "invoicesCreate"]]
    /\ UNCHANGED <<env, calc, users, processed, orgStore, stripeInfo, invoices, items, writes>>

\* faulty variant: a failed customers.create is recorded but not thrown
CICustomersCreateContinues(r) ==
    /\ req[r].kind = "createInvoice" /\ req[r].pc = "customersCreate"
    /\ \E ok \in BOOLEAN :
        LET rec == req[r]
            customer == [id |-> r, email |-> ParentEmail(rec.parentId),
                         name |-> StudentName(rec.studentId), student |-> rec.studentId]
        IN  /\ Log(r, Call("customers.create", rec.stripeAccount, IF ok THEN r ELSE NoId, ok))
            /\ customers' = IF ok THEN [customers EXCEPT ![rec.stripeAccount] = Append(@, customer)]
                            ELSE customers
            /\ req' = [req EXCEPT ![r] =
                    IF ~ok THEN [rec EXCEPT !.failedAt = "customersCreate",
                                            !.pc = "studentUpdate"]
                    ELSE [rec EXCEPT !.stripeCustomerId = r, !.pc = "studentUpdate"]]
    /\ UNCHANGED <<env, calc, users, processed, orgStore, stripeInfo, invoices, items, writes>>

\* await stripeForAccount.customers.create(...)
CICustomersCreate(r) ==
    /\ req[r].kind = "createInvoice" /\ req[r].pc = "customersCreate"
    /\ \E ok \in BOOLEAN :
        LET rec == req[r]
            customer == [id |-> r, email |-> ParentEmail(rec.parentId),
                         name |-> StudentName(rec.studentId), student |-> rec.studentId]
        IN  /\ Log(r, Call("customers.create", rec.stripeAccount, IF ok THEN r ELSE NoId, ok))
            /\ customers' = IF ok THEN [customers EXCEPT ![rec.stripeAccount] = Append(@, customer)]
                            ELSE customers
            /\ req' = [req EXCEPT ![r] =
                    IF ~ok THEN Throw(rec, "customersCreate")
                    ELSE [rec EXCEPT !.stripeCustomerId = r, !.pc = "studentUpdate"]]
    /\ UNCHANGED <<env, calc, users, processed, orgStore, stripeInfo, invoices, items, writes>>

\* await studentRef.update(updateData)
CIStudentUpdate(r) ==
    /\ req[r].kind = "createInvoice" /\ req[r].pc = "studentUpdate"
    /\ \E ok \in BOOLEAN :
        LET rec == req[r]
        IN  /\ Log(r, Call("students.update", rec.account, rec.stripeCustomerId, ok))
            /\ stripeInfo' = IF ok THEN UpdateStripeInfo(stripeInfo, rec.studentId,
                                                          rec.account, rec.stripeCustomerId)
                             ELSE stripeInfo
            /\ writes' = IF ok THEN writes \cup {Write(r, "stripeInfo", rec.studentId,
                                                       rec.account, rec.stripeCustomerId)}
                         ELSE writes
            /\ req' = [req EXCEPT ![r] =
                    IF ~ok THEN Throw(rec, "studentUpdate")
                    ELSE [rec EXCEPT !.pc = "invoicesCreate"]]
    /\ UNCHANGED <<env, calc, users, processed, orgStore, customers, invoices, items>>

\* await stripeForAccount.invoices.create({ customer, auto_advance: false, ... })
CIInvoicesCreate(r) ==
    /\ req[r].kind = "createInvoice" /\ req[r].pc = "invoicesCreate"
    /\ \E ok \in BOOLEAN :
        LET rec == req[r]
        IN  /\ Log(r, Call("invoices.create", rec.stripeAccount, IF ok THEN r ELSE NoId, ok))
            /\ invoices' = IF ok THEN [invoices EXCEPT ![r] =
                                [status |-> "draft", acct |-> rec.stripeAccount,
                                 customer |-> rec.stripeCustomerId]]
                           ELSE invoices
            /\ req' = [req EXCEPT ![r] =
                    IF ~ok THEN Throw(rec, "invoicesCreate")
                    ELSE [rec EXCEPT !.draftInvoiceId = r, !.pc = "invoiceItemsCreate"]]
    /\ UNCHANGED <<env, calc, users, processed, orgStore, stripeInfo, customers, items, writes>>

\* await stripeForAccount.invoiceItems.create({ ..., invoice: draftInvoice.id });
\* the provider attaches the item to the draft, or (the case the handler's
\* pre-finalization check is written for) leaves it pending on the customer
CIInvoiceItemsCreate(r) ==
    /\ req[r].kind = "createInvoice" /\ req[r].pc = "invoiceItemsCreate"
    /\ \E ok \in BOOLEAN, attached \in BOOLEAN :
        LET rec == req[r]
        IN  /\ ok \/ attached
            /\ Log(r, Call("invoiceItems.create", rec.stripeAccount, IF ok THEN r ELSE NoId, ok))
            /\ items' = IF ok THEN [items EXCEPT ![r] =
                                [status |-> "live", acct |-> rec.stripeAccount,
                                 customer |-> rec.stripeCustomerId,
                                 invoice |-> IF attached THEN rec.draftInvoiceId ELSE NoId,
                                 amount |-> rec.amountInCents]]
                        ELSE items
            /\ req' = [req EXCEPT ![r] =
                    IF ~ok THEN Throw(rec, "invoiceItemsCreate")
                    ELSE [rec EXCEPT !.createdInvoiceItemId = r, !.pc = "invoicesRetrieve"]]
    /\ UNCHANGED <<env, calc, users, processed, orgStore, stripeInfo, customers, invoices, writes>>

\* await stripeForAccount.invoices.retrieve(draftInvoice.id); the check
CIInvoicesRetrieve(r) ==
    /\ req[r].kind = "createInvoice" /\ req[r].pc = "invoicesRetrieve"
    /\ \E ok \in BOOLEAN :
        LET rec == req[r]
            total == InvoiceTotal(rec.draftInvoiceId)
        IN  /\ Log(r, Call("invoices.retrieve", rec.stripeAccount, rec.draftInvoiceId, ok))
            /\ req' = [req EXCEPT ![r] =
                    IF ~ok THEN Throw(rec, "invoicesRetrieve")
                    ELSE IF total = 0 /\ rec.amountInCents > 0 THEN Throw(rec, "check")
                    ELSE [rec EXCEPT !.pc = "finalizeInvoice"]]
    /\ UNCHANGED <<env, calc, users, processed, orgStore, stripeInfo, customers, invoices, items, writes>>

\* await stripeForAccount.invoices.finalizeInvoice(draftInvoice.id, ...); respond
CIFinalizeInvoice(r) ==
    /\ req[r].kind = "createInvoice" /\ req[r].pc = "finalizeInvoice"
    /\ \E ok \in BOOLEAN :
        LET rec == req[r]
        IN  /\ Log(r, Call("invoices.finalizeInvoice", rec.stripeAccount, rec.draftInvoiceId, ok))
            /\ invoices' = IF ok THEN [invoices EXCEPT ![rec.draftInvoiceId].status = "open"]
                           ELSE invoices
            /\ req' = [req EXCEPT ![r] =
                    IF ~ok THEN Throw(rec, "finalizeInvoice")
                    ELSE Respond(rec, 200, rec.draftInvoiceId)]
    /\ UNCHANGED <<env, calc, users, processed, orgStore, stripeInfo, customers, items, writes>>

\* faulty variant: a failed line-item delete ends the cleanup and becomes the
\* error that is reported
CIDelItemStops(r) ==
    /\ req[r].kind = "createInvoice" /\ req[r].pc = "delItem"
    /\ \E ok \in BOOLEAN :
        LET rec == req[r]
        IN  /\ Log(r, Call("invoiceItems.del", rec.stripeAccount, rec.createdInvoiceItemId, ok))
            /\ items' = IF ok THEN [items EXCEPT ![rec.createdInvoiceItemId].status = "deleted"]
                        ELSE items
            /\ req' = [req EXCEPT ![r] =
                    IF ~ok THEN Respond([rec EXCEPT !.failedAt = "delItem"], 500, NoId)
                    ELSE IF rec.stripeForAccount /\ rec.draftInvoiceId # NoId
                    THEN [rec EXCEPT !.pc = "delDraft"]
                    ELSE IF rec.status = 0 THEN Respond(rec, 500, NoId)
                    ELSE [rec EXCEPT !.pc = "done"]]
    /\ UNCHANGED <<env, calc, users, processed, orgStore, stripeInfo, customers, invoices, writes>>

\* catch: try { await stripeForAccount.invoiceItems.del(createdInvoiceItemId) } catch (e) {}
CIDelItem(r) ==
    /\ req[r].kind = "createInvoice" /\ req[r].pc = "delItem"
    /\ \E ok \in BOOLEAN :
        LET rec == req[r]
        IN  /\ Log(r, Call("invoiceItems.del", rec.stripeAccount, rec.createdInvoiceItemId, ok))
            /\ items' = IF ok THEN [items EXCEPT ![rec.createdInvoiceItemId].status = "deleted"]
                        ELSE items
            /\ req' = [req EXCEPT ![r] =
                    IF rec.stripeForAccount /\ rec.draftInvoiceId # NoId
                    THEN [rec EXCEPT !.pc = "delDraft"]
                    ELSE IF rec.status = 0 THEN Respond(rec, 500, NoId)
                    ELSE [rec EXCEPT !.pc = "done"]]
    /\ UNCHANGED <<env, calc, users, processed, orgStore, stripeInfo, customers, invoices, writes>>

\* catch: try { await stripeForAccount.invoices.del(draftInvoiceId) } catch (e) {}; respond
CIDelDraft(r) ==
    /\ req[r].kind = "createInvoice" /\ req[r].pc = "delDraft"
    /\ \E ok \in BOOLEAN :
        LET rec == req[r]
        IN  /\ Log(r, Call("invoices.del", rec.stripeAccount, rec.draftInvoiceId, ok))
            /\ invoices' = IF ok THEN [invoices EXCEPT ![rec.draftInvoiceId].status = "deleted"]
                           ELSE invoices
            /\ req' = [req EXCEPT ![r] =
                    IF rec.status = 0 THEN Respond(rec, 500, NoId)
                    ELSE [rec EXCEPT !.pc = "done"]]
    /\ UNCHANGED <<env, calc, users, processed, orgStore, stripeInfo, customers, items, writes>>

\* idempotencyKey: `finalize-${draftInvoice.id}-${Date.now()}`, now in milliseconds
IdempotencyKey(draftInvoiceId, now) == <<"finalize", draftInvoiceId, now>>

\* the clock readings, in milliseconds, of two finalize calls for one draft
TimeInputs == {0, 1, 999, 1000, 1001, 60000}
KeyArgs == [draft : Reqs, first : TimeInputs, second : TimeInputs]

\* a finalize call for a draft and a second one for the same draft
InitKey ==
    /\ keys = [a \in Accounts |-> TRUE]
    /\ orgEnv = FullOrgEnv
    /\ adminApp = TRUE
    /\ InitData
    /\ NoDeliveries
    /\ arg \in KeyArgs
    /\ result = NoResult
    /\ users = FirstUserAdmin

\* the options of the two finalizeInvoice calls
FinalizeTwice ==
    /\ arg # NoArg /\ result = NoResult
    /\ result' = <<IdempotencyKey(arg.draft, arg.first), IdempotencyKey(arg.draft, arg.second)>>
    /\ UNCHANGED <<env, users, processed, orgStore, stripeInfo, customers, invoices, items, req,
                   trace, writes, arg>>

CreateInvoice(r) ==
    \/ CIStart(r) \/ CIStudentGet(r) \/ CIParentGet(r) \/ CICustomersList(r)
    \/ CICustomersCreate(r) \/ CIStudentUpdate(r) \/ CIInvoicesCreate(r)
    \/ CIInvoiceItemsCreate(r) \/ CIInvoicesRetrieve(r) \/ CIFinalizeInvoice(r)
    \/ CIDelItem(r) \/ CIDelDraft(r)

\* the caller closes the connection while its create-invoice request is being
\* handled; the handler registers no listener for it and reads no state of
\* the connection before its calls
Disconnect(r) ==
    /\ req[r].kind = "createInvoice" /\ req[r].pc \notin {"idle", "done"}
    /\ ~req[r].disconnected
    /\ req' = [req EXCEPT ![r].disconnected = TRUE]
    /\ UNCHANGED <<env, calc, users, processed, orgStore, stripeInfo, customers, invoices, items, trace, writes>>

NextDisconnect == \E r \in DisconnectReqs : CreateInvoice(r) \/ Disconnect(r)

\* ------------------------------------ POST /map-stripe-customer (multi-account)
ValidMapStripeCustomer ==
    [token |-> "admin", studentId |-> "s1", account |-> ACCOUNT_ID_STATE48,
     customerId |-> PreCustomer.id]

\* customer ids in a request body: none or not a cus_ id (NoId), the customer
\* made by hand, and the customer the first request may have created
MapCustomerIdInputs == {NoId, PreCustomer.id, 1}

MapStripeCustomerInputs ==
    {[ValidMapStripeCustomer EXCEPT !.studentId = s, !.account = a] : s \in Students, a \in Accounts}
    \cup {[ValidMapStripeCustomer EXCEPT !.token = t] : t \in Tokens}
    \cup {[ValidMapStripeCustomer EXCEPT !.studentId = s] : s \in StudentInputs}
    \cup {[ValidMapStripeCustomer EXCEPT !.account = a] : a \in AccountInputs}
    \cup {[ValidMapStripeCustomer EXCEPT !.customerId = c, !.account = a] :
            c \in MapCustomerIdInputs, a \in Accounts}

\* the catch of the routes that answer by the error's message
ConfigErrorStatus(instance) == IF instance = "invalid" THEN 400 ELSE 500

\* entry: middleware, validation, getStripeInstance
MSCStart(r) ==
    /\ Running
    /\ Free(r)
    /\ \E in \in MapStripeCustomerInputs :
        LET rec == [req[r] EXCEPT !.kind = "mapStripeCustomer", !.token = in.token,
                        !.studentId = in.studentId, !.account = in.account,
                        !.customerId = in.customerId]
            auth == AuthStatus(in.token, TRUE)
            instance == GetStripeInstance(in.account)
        IN  req' = [req EXCEPT ![r] =
                IF auth # 0 THEN Respond(rec, auth, NoId)
                ELSE IF in.account \notin Accounts THEN Respond(rec, 400, NoId)
                ELSE IF in.customerId = NoId THEN Respond(rec, 400, NoId)
                ELSE IF instance # "ok"
                     THEN Respond([rec EXCEPT !.failedAt = "getStripeInstance"],
                                  ConfigErrorStatus(instance), NoId)
                ELSE [rec EXCEPT !.stripeForAccount = TRUE, !.pc = "customersRetrieve"]]
    /\ UNCHANGED <<env, calc, users, processed, orgStore, stripeInfo, customers, invoices, items, trace, writes>>

\* await stripeForAccount.customers.retrieve(stripeCustomerId)
MSCCustomersRetrieve(r) ==
    /\ req[r].kind = "mapStripeCustomer" /\ req[r].pc = "customersRetrieve"
    /\ \E ok \in BOOLEAN :
        LET rec == req[r]
            exists == \E i \in 1..Len(customers[rec.account]) :
                          customers[rec.account][i].id = rec.customerId
        IN  /\ Log(r, Call("customers.retrieve", rec.account, rec.customerId, ok))
            /\ req' = [req EXCEPT ![r] =
                    IF ~ok THEN Respond([rec EXCEPT !.failedAt = "customersRetrieve"], 500, NoId)
                    ELSE IF ~exists
                         THEN Respond([rec EXCEPT !.failedAt = "customersRetrieve"], 400, NoId)
                    ELSE [rec EXCEPT !.pc = "studentUpdate"]]
    /\ UNCHANGED <<env, calc, users, processed, orgStore, stripeInfo, customers, invoices, items, writes>>

\* await studentRef.update(updateData): it throws when the document is missing
MSCStudentUpdate(r) ==
    /\ req[r].kind = "mapStripeCustomer" /\ req[r].pc = "studentUpdate"
    /\ \E ok \in BOOLEAN :
        LET rec == req[r]
            done == ok /\ rec.studentId \in Students
        IN  /\ Log(r, Call("students.update", rec.account, rec.customerId, done))
            /\ stripeInfo' = IF done THEN UpdateStripeInfo(stripeInfo, rec.studentId,
                                                            rec.account, rec.customerId)
                             ELSE stripeInfo
            /\ writes' = IF done THEN writes \cup {Write(r, "stripeInfo", rec.studentId,
                                                         rec.account, rec.customerId)}
                         ELSE writes
            /\ req' = [req EXCEPT ![r] =
                    IF ~done THEN Respond([rec EXCEPT !.failedAt = "studentUpdate"], 500, NoId)
                    ELSE Respond(rec, 200, NoId)]
    /\ UNCHANGED <<env, calc, users, processed, orgStore, customers, invoices, items>>

MapStripeCustomer(r) ==
    MSCStart(r) \/ MSCCustomersRetrieve(r) \/ MSCStudentUpdate(r)

\* ---- GET /get-student-invoices, /get-student-subscriptions /:studentId/:accountIdentifier
GetStudentInputs ==
    {[token |-> "user", studentId |-> s, account |-> a] : s \in Students, a \in Accounts}
    \cup {[token |-> t, studentId |-> "s1", account |-> ACCOUNT_ID_HALLE] : t \in Tokens}
    \cup {[token |-> "user", studentId |-> s, account |-> ACCOUNT_ID_HALLE] : s \in StudentInputs}
    \cup {[token |-> "user", studentId |-> "s1", account |-> a] : a \in AccountInputs}

\* faulty variant: the accountIdentifier is not validated at entry
GetStudentStartUnchecked(r, kind) ==
    /\ Running
    /\ Free(r)
    /\ \E in \in GetStudentInputs :
        LET rec == [req[r] EXCEPT !.kind = kind, !.token = in.token,
                        !.studentId = in.studentId, !.account = in.account]
            auth == AuthStatus(in.token, FALSE)
        IN  req' = [req EXCEPT ![r] =
                IF auth # 0 THEN Respond(rec, auth, NoId)
                ELSE [rec EXCEPT !.stripeForAccount = TRUE, !.pc = "studentGet"]]
    /\ UNCHANGED <<env, calc, users, processed, orgStore, stripeInfo, customers, invoices, items, trace, writes>>

\* entry of either route: authenticateToken, validation, getStripeInstance
GetStudentStart(r, kind) ==
    /\ Running
    /\ Free(r)
    /\ \E in \in GetStudentInputs :
        LET rec == [req[r] EXCEPT !.kind = kind, !.token = in.token,
                        !.studentId = in.studentId, !.account = in.account]
            auth == AuthStatus(in.token, FALSE)
            instance == GetStripeInstance(in.account)
        IN  req' = [req EXCEPT ![r] =
                IF auth # 0 THEN Respond(rec, auth, NoId)
                ELSE IF in.account \notin Accounts THEN Respond(rec, 400, NoId)
                ELSE IF instance # "ok"
                     THEN Respond([rec EXCEPT !.failedAt = "getStripeInstance"],
                                  ConfigErrorStatus(instance), NoId)
                ELSE [rec EXCEPT !.stripeForAccount = TRUE, !.pc = "studentGet"]]
    /\ UNCHANGED <<env, calc, users, processed, orgStore, stripeInfo, customers, invoices, items, trace, writes>>

GSIStart(r) == GetStudentStart(r, "getStudentInvoices")
GSSStart(r) == GetStudentStart(r, "getStudentSubscriptions")

\* await studentRef.get(); 404 without the document, an empty list without a mapping
GetStudentStudentGet(r) ==
    /\ req[r].kind \in {"getStudentInvoices", "getStudentSubscriptions"}
    /\ req[r].pc = "studentGet"
    /\ \E ok \in BOOLEAN :
        LET rec == req[r]
        IN  /\ Log(r, Call("students.get", "", NoId, ok))
            /\ req' = [req EXCEPT ![r] =
                    IF ~ok THEN Respond([rec EXCEPT !.failedAt = "studentGet"], 500, NoId)
                    ELSE IF rec.studentId \notin Students THEN Respond(rec, 404, NoId)
                    ELSE IF stripeInfo[rec.studentId][rec.account] = NoId
                         THEN Respond(rec, 200, NoId)
                    ELSE [rec EXCEPT !.pc = "list",
                              !.stripeCustomerId = stripeInfo[rec.studentId][rec.account]]]
    /\ UNCHANGED <<env, calc, users, processed, orgStore, stripeInfo, customers, invoices, items, writes>>

\* await stripeForAccount.invoices.list(...) or .subscriptions.list(...)
GetStudentList(r) ==
    /\ req[r].kind \in {"getStudentInvoices", "getStudentSubscriptions"}
    /\ req[r].pc = "list"
    /\ \E ok \in BOOLEAN :
        LET rec == req[r]
            op == IF rec.kind = "getStudentInvoices" THEN "invoices.list"
                  ELSE "subscriptions.list"
        IN  /\ Log(r, Call(op, rec.account, rec.stripeCustomerId, ok))
            /\ req' = [req EXCEPT ![r] =
                    IF ~ok THEN Respond([rec EXCEPT !.failedAt = "list"], 500, NoId)
                    ELSE Respond(rec, 200, NoId)]
    /\ UNCHANGED <<env, calc, users, processed, orgStore, stripeInfo, customers, invoices, items, writes>>

GetStudent(r) ==
    GSIStart(r) \/ GSSStart(r) \/ GetStudentStudentGet(r) \/ GetStudentList(r)

\* ---------------------------- POST /admin/sync-stripe-customers (multi-account)
Pairs == Students \X Accounts

\* the route's middleware, then the first awaited read
SyncStart(r) ==
    /\ Running
    /\ Free(r)
    /\ \E token \in Tokens :
        LET rec == [req[r] EXCEPT !.kind = "sync", !.token = token]
            auth == AuthStatus(token, TRUE)
        IN  req' = [req EXCEPT ![r] =
                IF auth # 0 THEN Respond(rec, auth, NoId)
                ELSE [rec EXCEPT !.pc = "parentsGet"]]
    /\ UNCHANGED <<env, calc, users, processed, orgStore, stripeInfo, customers, invoices, items, trace, writes>>

\* await parentsRef.get()
SyncParentsGet(r) ==
    /\ req[r].kind = "sync" /\ req[r].pc = "parentsGet"
    /\ \E ok \in BOOLEAN :
        LET rec == req[r]
        IN  /\ Log(r, Call("parents.get", "", NoId, ok))
            /\ req' = [req EXCEPT ![r] =
                    IF ~ok THEN Respond([rec EXCEPT !.failedAt = "parentsGet"], 500, NoId)
                    ELSE [rec EXCEPT !.pc = "studentsGet"]]
    /\ UNCHANGED <<env, calc, users, processed, orgStore, stripeInfo, customers, invoices, items, writes>>

\* await studentsRef.get(), then the two loops: a customers.list is started for
\* every (student, account) the snapshot shows unmapped
SyncStudentsGet(r) ==
    /\ req[r].kind = "sync" /\ req[r].pc = "studentsGet"
    /\ \E ok \in BOOLEAN :
        LET rec == req[r]
            started == [p \in Pairs |->
                           IF stripeInfo[p[1]][p[2]] = NoId
                           THEN [st |-> "list", id |-> NoId]
                           ELSE [st |-> "skip", id |-> NoId]]
        IN  /\ Log(r, Call("students.get", "", NoId, ok))
            /\ req' = [req EXCEPT ![r] =
                    IF ~ok THEN Respond([rec EXCEPT !.failedAt = "studentsGet"], 500, NoId)
                    ELSE [rec EXCEPT !.pc = "awaitAll", !.tasks = started]]
    /\ UNCHANGED <<env, calc, users, processed, orgStore, stripeInfo, customers, invoices, items, writes>>

\* customers.list(...) of one promise settles; .then finds the match by name,
\* .catch swallows the error
SyncCustomersList(r) ==
    /\ req[r].kind = "sync" /\ req[r].pc = "awaitAll"
    /\ \E p \in Pairs, ok \in BOOLEAN :
        LET rec == req[r]
            matchingCustomer ==
                FindByName(CustomersList(p[2], ParentEmail(StudentParents(p[1])[1])),
                           StudentName(p[1]))
        IN  /\ rec.tasks[p].st = "list"
            /\ req' = [req EXCEPT ![r].tasks[p] =
                    IF ok /\ matchingCustomer # NoId
                    THEN [st |-> "update", id |-> matchingCustomer]
                    ELSE [st |-> IF ok THEN "noMatch" ELSE "failed", id |-> NoId]]
    /\ UNCHANGED <<env, calc, users, processed, orgStore, stripeInfo, customers, invoices, items, trace, writes>>

\* await studentDoc.ref.update(updateData) of one promise
SyncStudentUpdate(r) ==
    /\ req[r].kind = "sync" /\ req[r].pc = "awaitAll"
    /\ \E p \in Pairs, ok \in BOOLEAN :
        LET rec == req[r]
            id == rec.tasks[p].id
        IN  /\ rec.tasks[p].st = "update"
            /\ stripeInfo' = IF ok THEN UpdateStripeInfo(stripeInfo, p[1], p[2], id)
                             ELSE stripeInfo
            /\ writes' = IF ok THEN writes \cup {Write(r, "stripeInfo", p[1], p[2], id)}
                         ELSE writes
            /\ req' = [req EXCEPT ![r].tasks[p].st = IF ok THEN "updated" ELSE "failed"]
    /\ UNCHANGED <<env, calc, users, processed, orgStore, customers, invoices, items, trace>>

\* await Promise.all(promises); respond with the summary
SyncRespond(r) ==
    /\ req[r].kind = "sync" /\ req[r].pc = "awaitAll"
    /\ \A p \in Pairs : req[r].tasks[p].st \notin {"list", "update"}
    /\ req' = [req EXCEPT ![r] = Respond(req[r], 200, NoId)]
    /\ UNCHANGED <<env, calc, users, processed, orgStore, stripeInfo, customers, invoices, items, trace, writes>>

Sync(r) ==
    \/ SyncStart(r) \/ SyncParentsGet(r) \/ SyncStudentsGet(r)
    \/ SyncCustomersList(r) \/ SyncStudentUpdate(r) \/ SyncRespond(r)

\* ------------------------------------------------- POST /set-admin, /delete-user
\* the users that hold the admin claim
Admins == {u \in Uids : users[u].exists /\ users[u].admin}

\* admin.auth().listUsers(maxResults): the first maxResults users, by uid
RECURSIVE FirstUsers(_, _)
FirstUsers(S, n) ==
    IF n = 0 \/ S = {} THEN {}
    ELSE LET u == CHOOSE x \in S : \A y \in S : x <= y
         IN  {u} \cup FirstUsers(S \ {u}, n - 1)
ListUsers(maxResults) == FirstUsers({u \in Uids : users[u].exists}, maxResults)

\* the callers and the targets tried: the first two users and the last one;
\* a body without a uid
CallerInputs == {1, 2, NumUsers}
TargetInputs == CallerInputs \cup {NoId}
\* a token carries the admin claim only if its user holds it
UserRequests ==
    {in \in [token : Tokens, uid : CallerInputs, target : TargetInputs] :
        /\ in.token \in {"user", "admin"} => users[in.uid].exists
        /\ in.token = "admin" => users[in.uid].admin}

\* authenticateToken; the target; req.user.admin; the self-promotion test
SAStart(r) ==
    /\ Free(r)
    /\ \E in \in UserRequests :
        LET rec == [req[r] EXCEPT !.kind = "setAdmin", !.token = in.token,
                        !.uid = in.uid, !.target = in.target]
            auth == AuthStatus(in.token, FALSE)
        IN  req' = [req EXCEPT ![r] =
                IF auth # 0 THEN Respond(rec, auth, NoId)
                ELSE IF in.target = NoId THEN Respond(rec, 400, NoId)
                ELSE IF in.token = "admin" THEN [rec EXCEPT !.pc = "setClaims"]
                ELSE IF in.target = in.uid THEN [rec EXCEPT !.pc = "listUsers"]
                ELSE Respond(rec, 403, NoId)]
    /\ UNCHANGED <<env, calc, users, processed, orgStore, stripeInfo, customers, invoices, items, trace, writes>>

\* await admin.auth().listUsers(10); the admins among the users returned
SAListUsers(r) ==
    /\ req[r].kind = "setAdmin" /\ req[r].pc = "listUsers"
    /\ \E ok \in BOOLEAN :
        LET rec == req[r]
            existingAdmins == {u \in ListUsers(ListUsersMax) : users[u].admin}
        IN  /\ Log(r, Call("listUsers", "", NoId, ok))
            /\ req' = [req EXCEPT ![r] =
                    IF ~ok THEN Respond([rec EXCEPT !.failedAt = "listUsers"], 500, NoId)
                    ELSE IF existingAdmins = {} THEN [rec EXCEPT !.pc = "setClaims"]
                    ELSE Respond(rec, 403, NoId)]
    /\ UNCHANGED <<env, calc, users, processed, orgStore, stripeInfo, customers, invoices, items, writes>>

\* await admin.auth().setCustomUserClaims(uidToMakeAdmin, { admin: true }); it
\* throws when the user does not exist
SASetClaims(r) ==
    /\ req[r].kind = "setAdmin" /\ req[r].pc = "setClaims"
    /\ \E ok \in BOOLEAN :
        LET rec == req[r]
            done == ok /\ users[rec.target].exists
        IN  /\ Log(r, Call("setCustomUserClaims", "", rec.target, done))
            /\ users' = IF done THEN [users EXCEPT ![rec.target].admin = TRUE] ELSE users
            /\ req' = [req EXCEPT ![r] =
                    IF ~done THEN Respond([rec EXCEPT !.failedAt = "setClaims"], 500, NoId)
                    ELSE Respond(rec, 200, NoId)]
    /\ UNCHANGED <<env, calc, processed, orgStore, stripeInfo, customers, invoices, items, writes>>

SetAdmin(r) == SAStart(r) \/ SAListUsers(r) \/ SASetClaims(r)

\* authenticateToken, isAdmin; the uid; if (uid === req.user.uid)
DUStart(r) ==
    /\ Free(r)
    /\ \E in \in UserRequests :
        LET rec == [req[r] EXCEPT !.kind = "deleteUser", !.token = in.token,
                        !.uid = in.uid, !.target = in.target]
            auth == AuthStatus(in.token, TRUE)
        IN  req' = [req EXCEPT ![r] =
                IF auth # 0 THEN Respond(rec, auth, NoId)
                ELSE IF in.target = NoId THEN Respond(rec, 400, NoId)
                ELSE IF in.target = in.uid THEN Respond(rec, 400, NoId)
                ELSE [rec EXCEPT !.pc = "deleteUser"]]
    /\ UNCHANGED <<env, calc, users, processed, orgStore, stripeInfo, customers, invoices, items, trace, writes>>

\* await admin.auth().deleteUser(uid); it throws when the user does not exist
DUDeleteUser(r) ==
    /\ req[r].kind = "deleteUser" /\ req[r].pc = "deleteUser"
    /\ \E ok \in BOOLEAN :
        LET rec == req[r]
            done == ok /\ users[rec.target].exists
        IN  /\ Log(r, Call("deleteUser", "", rec.target, done))
            /\ users' = IF done THEN [users EXCEPT ![rec.target] =
                                         [exists |-> FALSE, admin |-> FALSE]]
                         ELSE users
            /\ req' = [req EXCEPT ![r] =
                    IF ~done THEN Respond([rec EXCEPT !.failedAt = "deleteUser"], 500, NoId)
                    ELSE Respond(rec, 200, NoId)]
    /\ UNCHANGED <<env, calc, processed, orgStore, stripeInfo, customers, invoices, items, writes>>

DeleteUser(r) == DUStart(r) \/ DUDeleteUser(r)

\* POST /delete-user of the server that keeps running without the SDK
DUAStart(r) ==
    /\ Free(r)
    /\ \E in \in UserRequests :
        LET rec == [req[r] EXCEPT !.kind = "deleteUserAdminApp", !.token = in.token,
                        !.uid = in.uid, !.target = in.target]
            auth == AuthStatusAdminApp(in.token, TRUE)
        IN  req' = [req EXCEPT ![r] =
                IF auth # 0 THEN Respond(rec, auth, NoId)
                ELSE IF ~adminApp THEN Respond(rec, 500, NoId)
                ELSE IF in.target = NoId THEN Respond(rec, 400, NoId)
                ELSE IF in.target = in.uid THEN Respond(rec, 400, NoId)
                ELSE [rec EXCEPT !.pc = "deleteUser"]]
    /\ UNCHANGED <<env, calc, users, processed, orgStore, stripeInfo, customers, invoices, items, trace, writes>>

\* await admin.auth().deleteUser(uid); a missing user is answered 404
DUADeleteUser(r) ==
    /\ req[r].kind = "deleteUserAdminApp" /\ req[r].pc = "deleteUser"
    /\ \E ok \in BOOLEAN :
        LET rec == req[r]
            found == users[rec.target].exists
            done == ok /\ found
        IN  /\ Log(r, Call("deleteUser", "", rec.target, done))
            /\ users' = IF done THEN [users EXCEPT ![rec.target] =
                                         [exists |-> FALSE, admin |-> FALSE]]
                         ELSE users
            /\ req' = [req EXCEPT ![r] =
                    IF ~found THEN Respond([rec EXCEPT !.failedAt = "deleteUser"], 404, NoId)
                    ELSE IF ~ok THEN Respond([rec EXCEPT !.failedAt = "deleteUser"], 500, NoId)
                    ELSE Respond(rec, 200, NoId)]
    /\ UNCHANGED <<env, calc, processed, orgStore, stripeInfo, customers, invoices, items, writes>>

DeleteUserAdminApp(r) == DUAStart(r) \/ DUADeleteUser(r)

\* ------------------------------------------- POST /stripe/webhook/:orgId
OrgInputs == Orgs \cup {"other"}
\* whose webhook secret signed the payload, if any
SigInputs == Orgs \cup {"forged"}
EventInputs ==
    [type : {"invoice.paid", "customer.updated"}, customer : CustomerIds,
     invoice : {1}, status : {"paid"}]
    \cup {FinalizedEvent}

\* faulty variant: the signature is not compared with the org's secret
ConstructEventUnverified(orgId, sig) == TRUE

\* stripe.webhooks.constructEvent(req.body, sig, whSecret) returns the event
ConstructEvent(orgId, sig) == sig = orgId

\* the handler up to its first await: the secret, the key, the signature, the type
WHStart(r) ==
    /\ Free(r)
    /\ \E orgId \in OrgInputs, sig \in SigInputs, event \in EventInputs :
        LET rec == [req[r] EXCEPT !.kind = "webhook", !.account = orgId,
                        !.sig = sig, !.event = event]
            configured == orgId \in Orgs /\ orgEnv[orgId].whSecret /\ orgEnv[orgId].key
            verified == configured /\ ConstructEvent(orgId, sig)
        IN  /\ trace' = IF configured
                        THEN [trace EXCEPT ![r] =
                                 Append(@, Call("constructEvent", orgId, NoId, verified))]
                        ELSE trace
            /\ req' = [req EXCEPT ![r] =
                    IF orgId \notin Orgs \/ ~orgEnv[orgId].whSecret
                    THEN Respond([rec EXCEPT !.failedAt = "whSecret"], 400, NoId)
                    ELSE IF ~orgEnv[orgId].key
                    THEN Respond([rec EXCEPT !.failedAt = "key"], 400, NoId)
                    ELSE IF ~verified
                    THEN Respond([rec EXCEPT !.failedAt = "constructEvent"], 400, NoId)
                    ELSE IF event.type \notin {"invoice.paid", "invoice.finalized"}
                    THEN Respond(rec, 200, NoId)
                    ELSE [rec EXCEPT !.pc = "idxGet"]]
    /\ UNCHANGED <<env, calc, users, processed, orgStore, stripeInfo, customers, invoices, items, writes>>

\* await idxRef.get(); the outer catch acknowledges an error
WHIdxGet(r) ==
    /\ req[r].kind = "webhook" /\ req[r].pc = "idxGet"
    /\ \E ok \in BOOLEAN :
        LET rec == req[r]
            studentId == customerIndex[rec.account][rec.event.customer]
        IN  /\ Log(r, Call("stripeCustomers.get", rec.account, rec.event.customer, ok))
            /\ req' = [req EXCEPT ![r] =
                    IF ~ok THEN Respond([rec EXCEPT !.failedAt = "idxGet"], 200, NoId)
                    ELSE IF studentId = "" THEN Respond(rec, 200, NoId)
                    ELSE [rec EXCEPT !.studentId = studentId, !.pc = "invSet"]]
    /\ UNCHANGED <<env, calc, users, processed, orgStore, stripeInfo, customers, invoices, items, writes>>

\* faulty variant: a failed status write is answered with an error
WHInvSetSignals(r) ==
    /\ req[r].kind = "webhook" /\ req[r].pc = "invSet"
    /\ \E ok \in BOOLEAN :
        LET rec == req[r]
            ev == rec.event
        IN  /\ Log(r, Call("billing.set", rec.account, ev.invoice, ok))
            /\ billing' = IF ok
                          THEN [billing EXCEPT ![rec.account][rec.studentId][ev.invoice] =
                                   [@ EXCEPT !.status = ev.status,
                                             !.total = InvoiceTotal(ev.invoice)]]
                          ELSE billing
            /\ processed' = IF ok THEN processed \cup {<<rec.account, ev>>} ELSE processed
            /\ writes' = IF ok THEN writes \cup {Write(r, "billing", rec.studentId,
                                                       rec.account, ev.invoice)}
                         ELSE writes
            /\ req' = [req EXCEPT ![r] =
                    IF ~ok THEN Respond([rec EXCEPT !.failedAt = "invSet"], 500, NoId)
                    ELSE Respond(rec, 200, NoId)]
    /\ UNCHANGED <<env, calc, users, orgCustomers, customerIndex, stripeInfo, customers, invoices, items>>

\* await invRef.set({ status, total, ... }, { merge: true }); acknowledge
WHInvSet(r) ==
    /\ req[r].kind = "webhook" /\ req[r].pc = "invSet"
    /\ \E ok \in BOOLEAN :
        LET rec == req[r]
            ev == rec.event
        IN  /\ Log(r, Call("billing.set", rec.account, ev.invoice, ok))
            /\ billing' = IF ok
                          THEN [billing EXCEPT ![rec.account][rec.studentId][ev.invoice] =
                                   [@ EXCEPT !.status = ev.status,
                                             !.total = InvoiceTotal(ev.invoice)]]
                          ELSE billing
            /\ processed' = IF ok THEN processed \cup {<<rec.account, ev>>} ELSE processed
            /\ writes' = IF ok THEN writes \cup {Write(r, "billing", rec.studentId,
                                                       rec.account, ev.invoice)}
                         ELSE writes
            /\ req' = [req EXCEPT ![r] =
                    IF ~ok THEN Respond([rec EXCEPT !.failedAt = "invSet"], 200, NoId)
                    ELSE Respond(rec, 200, NoId)]
    /\ UNCHANGED <<env, calc, users, orgCustomers, customerIndex, stripeInfo, customers, invoices, items>>

Webhook(r) == WHStart(r) \/ WHIdxGet(r) \/ WHInvSet(r)

\* ------------------------------------------------ POST /stripe/map-customer
\* await verifyBearer(req): any verifiable id token passes
VerifyBearer(token) == token \in {"user", "admin"}

ValidMapCustomer ==
    [token |-> "user", orgId |-> ORG_A, studentId |-> "s1", customerId |-> 8]

MapCustomerInputs ==
    {[ValidMapCustomer EXCEPT !.studentId = s, !.customerId = c] :
        s \in Students, c \in CustomerIds}
    \cup {[ValidMapCustomer EXCEPT !.token = t] : t \in Tokens}
    \cup {[ValidMapCustomer EXCEPT !.orgId = o] : o \in OrgInputs \cup {""}}
    \cup {[ValidMapCustomer EXCEPT !.studentId = s] : s \in StudentInputs \cup {""}}
    \cup {[ValidMapCustomer EXCEPT !.customerId = NoId]}

\* faulty variant: the write replaces the student's whole customers map
SetCustomersReplace(store, orgId, studentId, customerId) ==
    [store EXCEPT ![orgId][studentId] =
        [k \in Orgs |-> IF k = orgId THEN customerId ELSE NoId]]

\* sRef.set({ stripe: { customers: { [orgId]: customerId } } }, { merge: true })
SetCustomersMerge(store, orgId, studentId, customerId) ==
    [store EXCEPT ![orgId][studentId][orgId] = customerId]

\* await verifyBearer(req); the required fields
MCStart(r) ==
    /\ Free(r)
    /\ \E in \in MapCustomerInputs :
        LET rec == [req[r] EXCEPT !.kind = "mapCustomer", !.token = in.token,
                        !.account = in.orgId, !.studentId = in.studentId,
                        !.customerId = in.customerId]
        IN  req' = [req EXCEPT ![r] =
                IF ~VerifyBearer(in.token)
                THEN Respond([rec EXCEPT !.failedAt = "verifyBearer"], 400, NoId)
                ELSE IF in.orgId = "" \/ in.studentId = "" \/ in.customerId = NoId
                THEN Respond(rec, 400, NoId)
                ELSE [rec EXCEPT !.pc = "studentGet"]]
    /\ UNCHANGED <<env, calc, users, processed, orgStore, stripeInfo, customers, invoices, items, trace, writes>>

\* await sRef.get()
MCStudentGet(r) ==
    /\ req[r].kind = "mapCustomer" /\ req[r].pc = "studentGet"
    /\ \E ok \in BOOLEAN :
        LET rec == req[r]
        IN  /\ Log(r, Call("students.get", rec.account, NoId, ok))
            /\ req' = [req EXCEPT ![r] =
                    IF ~ok THEN Respond([rec EXCEPT !.failedAt = "studentGet"], 400, NoId)
                    ELSE IF rec.account \notin Orgs \/ rec.studentId \notin Students
                    THEN Respond(rec, 404, NoId)
                    ELSE [rec EXCEPT !.pc = "studentSet"]]
    /\ UNCHANGED <<env, calc, users, processed, orgStore, stripeInfo, customers, invoices, items, writes>>

\* await sRef.set(..., { merge: true })
MCStudentSet(r) ==
    /\ req[r].kind = "mapCustomer" /\ req[r].pc = "studentSet"
    /\ \E ok \in BOOLEAN :
        LET rec == req[r]
        IN  /\ Log(r, Call("students.set", rec.account, rec.customerId, ok))
            /\ orgCustomers' = IF ok THEN SetCustomersMerge(orgCustomers, rec.account,
                                                            rec.studentId, rec.customerId)
                               ELSE orgCustomers
            /\ writes' = IF ok THEN writes \cup {Write(r, "customers", rec.studentId,
                                                       rec.account, rec.customerId)}
                         ELSE writes
            /\ req' = [req EXCEPT ![r] =
                    IF ~ok THEN Respond([rec EXCEPT !.failedAt = "studentSet"], 400, NoId)
                    ELSE [rec EXCEPT !.pc = "indexSet"]]
    /\ UNCHANGED <<env, calc, users, processed, customerIndex, billing, stripeInfo, customers, invoices, items>>

\* await customerIndexRef(orgId, customerId).set({ studentId }, { merge: true }); respond
MCIndexSet(r) ==
    /\ req[r].kind = "mapCustomer" /\ req[r].pc = "indexSet"
    /\ \E ok \in BOOLEAN :
        LET rec == req[r]
        IN  /\ Log(r, Call("stripeCustomers.set", rec.account, rec.customerId, ok))
            /\ customerIndex' = IF ok
                                THEN [customerIndex EXCEPT ![rec.account][rec.customerId] =
                                         rec.studentId]
                                ELSE customerIndex
            /\ writes' = IF ok THEN writes \cup {Write(r, "stripeCustomers", rec.studentId,
                                                       rec.account, rec.customerId)}
                         ELSE writes
            /\ req' = [req EXCEPT ![r] =
                    IF ~ok THEN Respond([rec EXCEPT !.failedAt = "indexSet"], 400, NoId)
                    ELSE Respond(rec, 200, NoId)]
    /\ UNCHANGED <<env, calc, users, processed, orgCustomers, billing, stripeInfo, customers, invoices, items>>

MapCustomer(r) == MCStart(r) \/ MCStudentGet(r) \/ MCStudentSet(r) \/ MCIndexSet(r)

\* ---------------------------------------------- POST /stripe/create-invoice
ValidStripeCreateInvoice ==
    [token |-> "user", orgId |-> ORG_A, studentId |-> "s2", amount |-> 25000]

StripeCreateInvoiceInputs ==
    {[ValidStripeCreateInvoice EXCEPT !.token = t] : t \in Tokens}
    \cup {[ValidStripeCreateInvoice EXCEPT !.orgId = o] : o \in OrgInputs \cup {""}}
    \cup {[ValidStripeCreateInvoice EXCEPT !.studentId = s] : s \in StudentInputs \cup {""}}
    \cup {[ValidStripeCreateInvoice EXCEPT !.amount = m] : m \in AmountInputs}

\* function getStripe(orgId): whether it returns a client
GetStripe(orgId) == orgId \in Orgs /\ orgEnv[orgId].key

\* the pending invoice items of a customer, which invoices.create may pull in
PendingItems(acct, customer) ==
    {i \in Reqs : /\ items[i].status = "live" /\ items[i].invoice = NoId
                  /\ items[i].acct = acct /\ items[i].customer = customer}

\* await verifyBearer(req); the required fields; getStripe(orgId)
SCIStart(r) ==
    /\ Free(r)
    /\ \E in \in StripeCreateInvoiceInputs, err \in FloatErrors :
        LET rec == [req[r] EXCEPT !.kind = "stripeCreateInvoice", !.token = in.token,
                        !.account = in.orgId, !.studentId = in.studentId,
                        !.amount = in.amount, !.amountInCents = AmountInCents(in.amount, err)]
        IN  req' = [req EXCEPT ![r] =
                IF ~VerifyBearer(in.token)
                THEN Respond([rec EXCEPT !.failedAt = "verifyBearer"], 400, NoId)
                ELSE IF in.orgId = "" \/ in.studentId = "" \/ in.amount = 0
                THEN Respond(rec, 400, NoId)
                ELSE IF ~GetStripe(in.orgId)
                THEN Respond([rec EXCEPT !.failedAt = "getStripe"], 400, NoId)
                ELSE [rec EXCEPT !.stripeForAccount = TRUE, !.pc = "studentGet"]]
    /\ UNCHANGED <<env, calc, users, processed, orgStore, stripeInfo, customers, invoices, items, trace, writes>>

\* await studentRef(orgId, studentId).get(); the student's mapping for the org
SCIStudentGet(r) ==
    /\ req[r].kind = "stripeCreateInvoice" /\ req[r].pc = "studentGet"
    /\ \E ok \in BOOLEAN :
        LET rec == req[r]
            customerId == orgCustomers[rec.account][rec.studentId][rec.account]
        IN  /\ Log(r, Call("students.get", rec.account, NoId, ok))
            /\ req' = [req EXCEPT ![r] =
                    IF ~ok THEN Respond([rec EXCEPT !.failedAt = "studentGet"], 400, NoId)
                    ELSE IF rec.studentId \notin Students THEN Respond(rec, 404, NoId)
                    ELSE IF customerId = NoId THEN Respond(rec, 400, NoId)
                    ELSE [rec EXCEPT !.stripeCustomerId = customerId,
                              !.pc = "invoiceItemsCreate"]]
    /\ UNCHANGED <<env, calc, users, processed, orgStore, stripeInfo, customers, invoices, items, writes>>

\* await stripe.invoiceItems.create({ customer, amount, ... }): a pending item
SCIInvoiceItemsCreate(r) ==
    /\ req[r].kind = "stripeCreateInvoice" /\ req[r].pc = "invoiceItemsCreate"
    /\ \E ok \in BOOLEAN :
        LET rec == req[r]
        IN  /\ Log(r, Call("invoiceItems.create", rec.account, IF ok THEN r ELSE NoId, ok))
            /\ items' = IF ok THEN [items EXCEPT ![r] =
                                [status |-> "live", acct |-> rec.account,
                                 customer |-> rec.stripeCustomerId, invoice |-> NoId,
                                 amount |-> rec.amountInCents]]
                        ELSE items
            /\ req' = [req EXCEPT ![r] =
                    IF ~ok THEN Respond([rec EXCEPT !.failedAt = "invoiceItemsCreate"], 400, NoId)
                    ELSE [rec EXCEPT !.createdInvoiceItemId = r, !.pc = "invoicesCreate"]]
    /\ UNCHANGED <<env, calc, users, processed, orgStore, stripeInfo, customers, invoices, writes>>

\* await stripe.invoices.create({ customer, collection_method, ... }); the
\* provider includes the customer's pending items in the new invoice, or none
SCIInvoicesCreate(r) ==
    /\ req[r].kind = "stripeCreateInvoice" /\ req[r].pc = "invoicesCreate"
    /\ \E ok \in BOOLEAN, include \in BOOLEAN :
        LET rec == req[r]
            pulled == PendingItems(rec.account, rec.stripeCustomerId)
        IN  /\ ok \/ include
            /\ Log(r, Call("invoices.create", rec.account, IF ok THEN r ELSE NoId, ok))
            /\ invoices' = IF ok THEN [invoices EXCEPT ![r] =
                                [status |-> "draft", acct |-> rec.account,
                                 customer |-> rec.stripeCustomerId]]
                           ELSE invoices
            /\ items' = IF ok /\ include
                        THEN [i \in Reqs |-> IF i \in pulled
                                             THEN [items[i] EXCEPT !.invoice = r]
                                             ELSE items[i]]
                        ELSE items
            /\ req' = [req EXCEPT ![r] =
                    IF ~ok THEN Respond([rec EXCEPT !.failedAt = "invoicesCreate"], 400, NoId)
                    ELSE [rec EXCEPT !.draftInvoiceId = r, !.pc = "finalizeInvoice"]]
    /\ UNCHANGED <<env, calc, users, processed, orgStore, stripeInfo, customers, writes>>

\* await stripe.invoices.finalizeInvoice(invoice.id, {})
SCIFinalizeInvoice(r) ==
    /\ req[r].kind = "stripeCreateInvoice" /\ req[r].pc = "finalizeInvoice"
    /\ \E ok \in BOOLEAN :
        LET rec == req[r]
        IN  /\ Log(r, Call("invoices.finalizeInvoice", rec.account, rec.draftInvoiceId, ok))
            /\ invoices' = IF ok THEN [invoices EXCEPT ![rec.draftInvoiceId].status = "open"]
                           ELSE invoices
            /\ req' = [req EXCEPT ![r] =
                    IF ~ok THEN Respond([rec EXCEPT !.failedAt = "finalizeInvoice"], 400, NoId)
                    ELSE [rec EXCEPT !.pc = "sendInvoice"]]
    /\ UNCHANGED <<env, calc, users, processed, orgStore, stripeInfo, customers, items, writes>>

\* await stripe.invoices.sendInvoice(finalized.id)
SCISendInvoice(r) ==
    /\ req[r].kind = "stripeCreateInvoice" /\ req[r].pc = "sendInvoice"
    /\ \E ok \in BOOLEAN :
        LET rec == req[r]
        IN  /\ Log(r, Call("invoices.sendInvoice", rec.account, rec.draftInvoiceId, ok))
            /\ req' = [req EXCEPT ![r] =
                    IF ~ok THEN Respond([rec EXCEPT !.failedAt = "sendInvoice"], 400, NoId)
                    ELSE [rec EXCEPT !.pc = "historySet"]]
    /\ UNCHANGED <<env, calc, users, processed, orgStore, stripeInfo, customers, invoices, items, writes>>

\* await invRef.set({ amount: sent.total, status: sent.status, ... }, { merge: true }); respond
SCIHistorySet(r) ==
    /\ req[r].kind = "stripeCreateInvoice" /\ req[r].pc = "historySet"
    /\ \E ok \in BOOLEAN :
        LET rec == req[r]
            sent == rec.draftInvoiceId
        IN  /\ Log(r, Call("billing.set", rec.account, sent, ok))
            /\ billing' = IF ok
                          THEN [billing EXCEPT ![rec.account][rec.studentId][sent] =
                                   [@ EXCEPT !.status = invoices[sent].status,
                                             !.amount = InvoiceTotal(sent)]]
                          ELSE billing
            /\ writes' = IF ok THEN writes \cup {Write(r, "billing", rec.studentId,
                                                       rec.account, sent)}
                         ELSE writes
            /\ req' = [req EXCEPT ![r] =
                    IF ~ok THEN Respond([rec EXCEPT !.failedAt = "historySet"], 400, NoId)
                    ELSE Respond(rec, 200, sent)]
    /\ UNCHANGED <<env, calc, users, processed, orgCustomers, customerIndex, stripeInfo, customers, invoices, items>>

StripeCreateInvoice(r) ==
    \/ SCIStart(r) \/ SCIStudentGet(r) \/ SCIInvoiceItemsCreate(r) \/ SCIInvoicesCreate(r)
    \/ SCIFinalizeInvoice(r) \/ SCISendInvoice(r) \/ SCIHistorySet(r)

\* ------------------------------------------------------------ properties
\* the operations request r has called so far, and the store writes it made
Ops(r) == {trace[r][i].op : i \in 1..Len(trace[r])}
WritesBy(r) == {w \in writes : w.r = r}
CreatedFor(s, a) ==
    {i \in 1..Len(customers[a]) : customers[a][i].student = s}

\* C1: concurrent create-invoice requests for one (student, account) pair that
\* start unmapped and unmatched leave at most one customer created for the
\* pair at the provider, and every request invoices the id the student's
\* stripeInfo holds for the account
C1_NoDuplicateCustomers ==
    \A s \in Students, a \in Accounts :
        /\ Cardinality(CreatedFor(s, a)) <= 1
        /\ \A r \in Reqs :
             (/\ req[r].kind = "createInvoice" /\ req[r].pc = "done"
              /\ req[r].status = 200
              /\ req[r].studentId = s /\ req[r].account = a
              /\ \A q \in Reqs : req[q].kind = "createInvoice")
             => invoices[req[r].invoiceId].customer = stripeInfo[s][a]

\* C2: when the item creation, the pre-finalization check or the finalization
\* fails, the response is sent only after a delete was issued for the item and
\* for the draft the request created; deletes that succeed leave no item and
\* no draft of the request at the provider
C2_RollbackBeforeError ==
    \A r \in Reqs :
        (/\ req[r].kind = "createInvoice" /\ req[r].pc = "done"
         /\ req[r].failedAt \in {"invoiceItemsCreate", "invoicesRetrieve", "check",
                                 "finalizeInvoice"})
        => /\ req[r].status = 500 /\ req[r].invoiceId = NoId
           /\ req[r].draftInvoiceId # NoId
           /\ \E i \in 1..Len(trace[r]) :
                /\ trace[r][i] \in {Call("invoices.del", req[r].account,
                                         req[r].draftInvoiceId, ok) : ok \in BOOLEAN}
                /\ trace[r][i].ok => invoices[req[r].draftInvoiceId].status = "deleted"
           /\ req[r].createdInvoiceItemId # NoId =>
                \E i \in 1..Len(trace[r]) :
                    /\ trace[r][i] \in {Call("invoiceItems.del", req[r].account,
                                             req[r].createdInvoiceItemId, ok) : ok \in BOOLEAN}
                    /\ trace[r][i].ok => items[req[r].createdInvoiceItemId].status = "deleted"
           /\ req[r].createdInvoiceItemId = NoId => items[r].status = "none"

C2_Witness ==
    \E r \in Reqs :
        /\ req[r].kind = "createInvoice" /\ req[r].pc = "done"
        /\ req[r].failedAt = "check" /\ req[r].status = 500
        /\ items[req[r].createdInvoiceItemId].status = "deleted"
        /\ invoices[req[r].draftInvoiceId].status = "deleted"

\* C3: finalize is called on a draft only after the request re-fetched the
\* draft, and never leaves finalized an invoice whose total is 0 when the
\* requested amount in cents is positive
C3_FinalizeOnlyAfterCheck ==
    \A r \in Reqs :
        /\ \A i \in 1..Len(trace[r]) :
             trace[r][i].op = "invoices.finalizeInvoice" =>
                 \E j \in 1..(i - 1) :
                     trace[r][j].op = "invoices.retrieve" /\ trace[r][j].ok
        /\ (invoices[r].status = "open" /\ req[r].amountInCents > 0)
             => InvoiceTotal(r) > 0

\* C4: a request that has responded either succeeded with the reference of an
\* invoice its own finalize call finalized, or failed with no reference and no
\* invoice of its own left finalized at the provider
C4_NoPartialSuccess ==
    \A r \in Reqs :
        (req[r].kind \in {"createInvoice", "stripeCreateInvoice"} /\ req[r].pc = "done")
        => IF req[r].status = 200
           THEN /\ req[r].invoiceId = r
                /\ invoices[r].status = "open"
                /\ Call("invoices.finalizeInvoice", req[r].account, r, TRUE) \in
                       {trace[r][i] : i \in 1..Len(trace[r])}
           ELSE /\ req[r].invoiceId = NoId
                /\ invoices[r].status # "open"


\* the mapping a create-invoice request read from the student's snapshot
MappingRead(r) ==
    LET reads == {i \in 1..Len(trace[r]) : trace[r][i].op = "students.get"}
    IN  IF reads = {} THEN NoId ELSE trace[r][CHOOSE i \in reads : TRUE].id

\* C5: a create-invoice request whose student snapshot holds a mapping for the
\* account calls neither customers.list nor customers.create, writes no
\* mapping, and creates its invoice and item for exactly the id it read
C5_FastPath ==
    \A r \in Reqs :
        (req[r].kind = "createInvoice" /\ MappingRead(r) # NoId)
        => /\ Ops(r) \cap {"customers.list", "customers.create", "students.update"} = {}
           /\ WritesBy(r) = {}
           /\ req[r].stripeCustomerId = MappingRead(r)
           /\ invoices[r].status # "none" => invoices[r].customer = MappingRead(r)
           /\ items[r].status # "none" => items[r].customer = MappingRead(r)

C5_Witness ==
    \E r \in Reqs :
        /\ req[r].kind = "createInvoice" /\ MappingRead(r) # NoId
        /\ req[r].pc = "done" /\ req[r].status = 200
        /\ invoices[r].status = "open" /\ invoices[r].customer = MappingRead(r)

\* C6: a step that writes the customer id of one (student, account) leaves
\* every other account's entry of that student, and every other student's
\* entries, as they were; the same for the per-org customers map
C6_WriteFrame ==
    [][\A w \in writes' \ writes :
          /\ w.doc = "stripeInfo" =>
               /\ stripeInfo'[w.student][w.key] = w.id
               /\ \A s \in Students, a \in Accounts :
                    <<s, a>> # <<w.student, w.key>> => stripeInfo'[s][a] = stripeInfo[s][a]
          /\ w.doc = "customers" =>
               /\ orgCustomers'[w.key][w.student][w.key] = w.id
               /\ \A o \in Orgs, s \in Students, k \in Orgs :
                    <<o, s, k>> # <<w.key, w.student, w.key>>
                        => orgCustomers'[o][s][k] = orgCustomers[o][s][k]]_vars

C6_Witness ==
    \E s \in Students, w \in writes :
        /\ w.doc = "stripeInfo" /\ w.student = s /\ w.key = ACCOUNT_ID_HALLE
        /\ stripeInfo[s][ACCOUNT_ID_HALLE] = w.id
        /\ stripeInfo[s][ACCOUNT_ID_STATE48] = PreCustomer.id

\* C7: whatever the interleaving, a student's entry for an account holds an id
\* that was written to that very entry: writes of two requests to different
\* accounts of one student both survive
C7_BothEntriesSurvive ==
    \A w \in writes :
        w.doc = "stripeInfo" =>
            /\ stripeInfo[w.student][w.key] # NoId
            /\ stripeInfo[w.student][w.key] \in
                {v.id : v \in {u \in writes : /\ u.doc = "stripeInfo"
                                              /\ u.student = w.student
                                              /\ u.key = w.key}}

C7_Witness ==
    \E w1 \in writes, w2 \in writes :
        /\ w1.doc = "stripeInfo" /\ w2.doc = "stripeInfo"
        /\ w1.r # w2.r /\ w1.student = w2.student /\ w1.key # w2.key
        /\ req[w1.r].kind = "createInvoice" /\ req[w2.r].kind = "createInvoice"
        /\ req[w1.r].pc \notin {"idle", "done"} /\ req[w2.r].pc \notin {"idle", "done"}
        /\ stripeInfo[w1.student][w1.key] = w1.id
        /\ stripeInfo[w2.student][w2.key] = w2.id

\* C8: a create-invoice request whose customers.list or customers.create call
\* failed answers with an error, has created no invoice and no item, and has
\* written nothing to the student's stripeInfo
C8_ResolutionFailure ==
    \A r \in Reqs :
        (req[r].kind = "createInvoice"
         /\ req[r].failedAt \in {"customersList", "customersCreate"})
        => /\ req[r].pc = "done" /\ req[r].status = 500 /\ req[r].invoiceId = NoId
           /\ invoices[r].status = "none" /\ items[r].status = "none"
           /\ WritesBy(r) = {}
           /\ Ops(r) \cap {"students.update", "invoices.create", "invoiceItems.create"} = {}

C8_Witness ==
    \E r \in Reqs :
        /\ req[r].kind = "createInvoice" /\ req[r].pc = "done"
        /\ req[r].failedAt = "customersCreate" /\ req[r].status = 500
        /\ stripeInfo[req[r].studentId][req[r].account] = NoId

\* C9: a request of one of the four routes that take an accountIdentifier, made
\* with an identifier that is not a configured account, is answered with an
\* error at entry, with no provider call, no store call and no store write;
\* with a secret key absent the server does not run, so it serves no request
AccountRoutes ==
    {"createInvoice", "getStudentInvoices", "getStudentSubscriptions", "mapStripeCustomer"}

C9_AccountValidated ==
    /\ \A r \in Reqs :
         (req[r].kind \in AccountRoutes /\ req[r].account \notin Accounts)
         => /\ req[r].pc = "done" /\ req[r].status \in {400, 401, 403}
            /\ trace[r] = <<>> /\ WritesBy(r) = {}
    /\ (\E a \in Accounts : ~keys[a]) =>
         /\ \A r \in Reqs : req[r] = IdleReq /\ trace[r] = <<>>
         /\ writes = {}

C9_Witness ==
    \E r \in Reqs :
        /\ req[r].kind = "getStudentSubscriptions" /\ req[r].token = "user"
        /\ req[r].account = "other_account"
        /\ req[r].pc = "done" /\ req[r].status = 400
        /\ \E q \in Reqs : req[q].kind = "createInvoice" /\ req[q].token = "admin"
                           /\ req[q].account = "other_account" /\ req[q].status = 400

\* C10: a webhook request whose signature was not made with the secret of the
\* org in its path is answered 400 with no store call and no store write;
\* every store call of the webhook handler follows a successful
\* constructEvent of the same request
C10_SignatureBeforeStore ==
    \A r \in Reqs :
        req[r].kind = "webhook" =>
            /\ req[r].sig # req[r].account =>
                 /\ req[r].pc = "done" /\ req[r].status = 400
                 /\ Ops(r) \cap {"stripeCustomers.get", "billing.set"} = {}
                 /\ WritesBy(r) = {}
            /\ \A i \in 1..Len(trace[r]) :
                 trace[r][i].op \in {"stripeCustomers.get", "billing.set"} =>
                     /\ i > 1
                     /\ trace[r][1] = Call("constructEvent", req[r].account, NoId, TRUE)
                     /\ req[r].sig = req[r].account
            /\ WritesBy(r) # {} => "billing.set" \in Ops(r)

C10_Witness ==
    \E r \in Reqs :
        /\ req[r].kind = "webhook" /\ req[r].account = ORG_A /\ req[r].sig = ORG_B
        /\ req[r].event.type = "invoice.paid"
        /\ customerIndex[ORG_A][req[r].event.customer] # ""
        /\ req[r].pc = "done" /\ req[r].status = 400
        /\ trace[r] = <<Call("constructEvent", ORG_A, NoId, FALSE)>>

\* C11: a create-invoice or map-customer request issues an awaited call or
\* writes to the store only when its verified token carries the admin claim
AdminRoutes == {"createInvoice", "mapStripeCustomer", "stripeCreateInvoice", "mapCustomer"}

C11_AdminOnly ==
    \A r \in Reqs :
        (req[r].kind \in AdminRoutes /\ req[r].token # "admin")
        => /\ trace[r] = <<>> /\ WritesBy(r) = {}
           /\ req[r].pc = "done" /\ req[r].status \in {400, 401, 403}

\* the coarse time window of the idempotency token, in milliseconds
CoarseWindowMs == 1000

\* C12: two finalize calls for the same draft made within the same coarse time
\* window carry the same idempotency key
C12_SameWindowSameKey ==
    (/\ result # NoResult
     /\ arg.first \div CoarseWindowMs = arg.second \div CoarseWindowMs)
    => result[1] = result[2]

\* the awaited calls of a create-invoice request that creates its customer
FullSequence ==
    <<"students.get", "parents.get", "customers.list", "customers.create",
      "students.update", "invoices.create", "invoiceItems.create",
      "invoices.retrieve", "invoices.finalizeInvoice">>
OpSeq(r) == [i \in 1..Len(trace[r]) |-> trace[r][i].op]

\* C13: a create-invoice request that found no mapping and no match, all of
\* whose calls succeeded and which has thrown nothing, has made its calls in
\* the order list, create customer, write the new id, create draft, create
\* item, re-fetch, finalize; the item is of round(amount * 100) cents for the
\* new customer, and on the request's draft once the re-fetch found a
\* non-zero total; once answered it returned its
\* finalized invoice, and the student's entry holds the new id unless another
\* request wrote that entry
C13_EndToEndOrder ==
    \A r \in Reqs :
        (/\ req[r].kind = "createInvoice" /\ "customers.create" \in Ops(r)
         /\ \A i \in 1..Len(trace[r]) : trace[r][i].ok
         /\ req[r].failedAt = "")
        => LET n == Len(trace[r])
               s == req[r].studentId
               a == req[r].account
           IN  /\ n <= Len(FullSequence) /\ OpSeq(r) = SubSeq(FullSequence, 1, n)
               /\ MappingRead(r) = NoId
               /\ Cardinality({i \in 1..Len(customers[a]) : customers[a][i].id = r}) = 1
               /\ n >= 5 => /\ trace[r][5].id = r
                            /\ WritesBy(r) = {Write(r, "stripeInfo", s, a, r)}
               /\ n >= 6 => invoices[r].customer = r /\ invoices[r].acct = a
               /\ n >= 7 => /\ items[r].customer = r /\ items[r].invoice \in {r, NoId}
                            /\ items[r].amount \in
                                   {AmountInCents(req[r].amount, e) : e \in FloatErrors}
                            /\ req[r].amount % 10 = 0 => items[r].amount * 10 = req[r].amount
               /\ (n >= 8 /\ req[r].amountInCents > 0) => items[r].invoice = r
               /\ req[r].pc = "done" <=> n = 9
               /\ req[r].pc = "done" =>
                    /\ req[r].status = 200 /\ req[r].invoiceId = r
                    /\ invoices[r].status = "open"
                    /\ (\A w \in writes : (w.doc = "stripeInfo" /\ w.student = s /\ w.key = a)
                                            => w.r = r)
                         => stripeInfo[s][a] = r

C13_Witness ==
    \E r \in Reqs :
        /\ req[r].kind = "createInvoice" /\ OpSeq(r) = FullSequence
        /\ \A i \in 1..Len(trace[r]) : trace[r][i].ok
        /\ req[r].pc = "done" /\ req[r].status = 200 /\ req[r].amount = 25000
        /\ items[r].amount = 2500 /\ items[r].invoice = req[r].invoiceId
        /\ stripeInfo[req[r].studentId][req[r].account] = r

\* C17: a create-invoice request accepted with a positive amount of at most
\* two decimal places (a multiple of 10 thousandths of a dollar) holds exactly
\* amount * 100 cents (19.99 gives 1999, 25.00 gives 2500) whatever the
\* floating-point error of the product, and the line item it creates carries
\* that same integer
C17_ExactCents ==
    \A r \in Reqs :
        (req[r].kind = "createInvoice" /\ trace[r] # <<>>)
        => /\ (req[r].amount > 0 /\ req[r].amount % 10 = 0)
                => /\ req[r].amountInCents * 10 = req[r].amount
                   /\ req[r].amount = 19990 => req[r].amountInCents = 1999
                   /\ req[r].amount = 25000 => req[r].amountInCents = 2500
           /\ items[r] # NoItem => items[r].amount = req[r].amountInCents

C17_Witness ==
    \E r \in Reqs :
        /\ req[r].kind = "createInvoice" /\ req[r].amount = 19990
        /\ "invoiceItems.create" \in Ops(r)
        /\ items[r] # NoItem /\ items[r].amount = 1999

\* the failure that sent request r into its catch block is the call logged
\* just before position i of its trace
OriginalFailure(r, i) ==
    /\ i > 1
    /\ LET prev == trace[r][i - 1]
       IN  \/ req[r].failedAt = "check" /\ prev.op = "invoices.retrieve" /\ prev.ok
           \/ req[r].failedAt = "invoicesRetrieve" /\ prev.op = "invoices.retrieve" /\ ~prev.ok
           \/ /\ req[r].failedAt = "finalizeInvoice"
              /\ prev.op = "invoices.finalizeInvoice" /\ ~prev.ok

\* C18: when the line-item delete of a rollback fails, the draft-invoice
\* delete is still the next call the handler makes, the error it reports stays
\* the failure that started the rollback, and the answer is 500 with no
\* invoice; a failed draft delete does not change the reported error either
C18_CleanupFailureNotMasking ==
    \A r \in Reqs : \A i \in 1..Len(trace[r]) :
        LET c == trace[r][i]
            n == Len(trace[r])
        IN  /\ (c.op = "invoiceItems.del" /\ ~c.ok)
                => /\ OriginalFailure(r, i)
                   /\ req[r].draftInvoiceId # NoId
                   /\ IF i = n THEN req[r].pc = "delDraft"
                      ELSE /\ trace[r][i + 1].op = "invoices.del"
                           /\ trace[r][i + 1].id = req[r].draftInvoiceId
                   /\ req[r].pc = "done" => req[r].status = 500 /\ req[r].invoiceId = NoId
            /\ (c.op = "invoices.del" /\ ~c.ok)
                => /\ req[r].failedAt \notin {"", "delItem", "delDraft"}
                   /\ req[r].pc = "done" /\ req[r].status = 500 /\ req[r].invoiceId = NoId

C18_Witness ==
    \E r \in Reqs :
        /\ req[r].pc = "done" /\ req[r].status = 500 /\ req[r].failedAt = "finalizeInvoice"
        /\ Len(trace[r]) >= 2
        /\ LET n == Len(trace[r])
           IN  /\ trace[r][n - 1].op = "invoiceItems.del" /\ ~trace[r][n - 1].ok
               /\ trace[r][n].op = "invoices.del" /\ trace[r][n].ok
        /\ items[r].status = "live" /\ invoices[r].status = "deleted"

\* the rollback of request r has been attempted for what it had created
RollbackAttempted(r) ==
    /\ req[r].createdInvoiceItemId # NoId => "invoiceItems.del" \in Ops(r)
    /\ req[r].draftInvoiceId # NoId => "invoices.del" \in Ops(r)

C19_RunsToEnd == \A r \in Reqs : req[r].disconnected ~> req[r].pc = "done"

C19_RollbackStillApplies ==
    \A r \in Reqs :
        (req[r].disconnected /\ req[r].pc = "done")
        => /\ req[r].status \in {200, 500}
           /\ req[r].failedAt = "" =>
                /\ req[r].status = 200 /\ invoices[req[r].invoiceId].status = "open"
           /\ req[r].failedAt # "" =>
                /\ req[r].status = 500 /\ RollbackAttempted(r)
                /\ \A i \in 1..Len(trace[r]) :
                     /\ (trace[r][i].op = "invoices.del" /\ trace[r][i].ok)
                            => invoices[r].status = "deleted"
                     /\ (trace[r][i].op = "invoiceItems.del" /\ trace[r][i].ok)
                            => items[r].status = "deleted"

\* C19: a create-invoice request whose caller disconnected still reaches the
\* end of its handler, and when it ends after a failure the deletions of the
\* line item and the draft it had created were attempted (and took effect when
\* they succeeded); when it ends without failure its invoice is finalized
C19_DisconnectRunsToCompletion == C19_RunsToEnd /\ []C19_RollbackStillApplies

C19_Witness ==
    \E r \in Reqs :
        /\ req[r].disconnected /\ req[r].pc = "done" /\ req[r].failedAt = "finalizeInvoice"
        /\ Len(trace[r]) >= 3
        /\ trace[r][Len(trace[r])].op = "invoices.del"
        /\ invoices[r].status = "deleted" /\ items[r].status = "deleted"

\* C14: a webhook request that delivers again an event whose status write has
\* already taken effect leaves the stored status of every invoice record as it
\* was, and leaves every record other than that invoice's untouched
C14_RedeliveryNoOp ==
    [][\A r \in Reqs :
         (/\ req[r].kind = "webhook" /\ req[r].pc = "invSet" /\ req'[r].pc = "done"
          /\ <<req[r].account, req[r].event>> \in processed)
         => \A o \in Orgs, s \in Students, i \in Reqs :
              /\ billing'[o][s][i].status = billing[o][s][i].status
              /\ <<o, s, i>> # <<req[r].account, req[r].studentId, req[r].event.invoice>>
                    => billing'[o][s][i] = billing[o][s][i]]_vars

MapRoutes == {"mapCustomer", "mapStripeCustomer"}

\* a store write of a map request whose target entry already holds the
\* request's value changes nothing in the Mapping Store
C15_RepeatIsNoOp ==
    \A r \in Reqs :
        (req'[r].pc # req[r].pc)
        => /\ (/\ req[r].kind = "mapCustomer" /\ req[r].pc = "studentSet"
               /\ orgCustomers[req[r].account][req[r].studentId][req[r].account]
                      = req[r].customerId)
                => UNCHANGED <<orgCustomers, customerIndex, stripeInfo>>
           /\ (/\ req[r].kind = "mapCustomer" /\ req[r].pc = "indexSet"
               /\ customerIndex[req[r].account][req[r].customerId] = req[r].studentId)
                => UNCHANGED <<orgCustomers, customerIndex, stripeInfo>>
           /\ (/\ req[r].kind = "mapStripeCustomer" /\ req[r].pc = "studentUpdate"
               /\ req[r].studentId \in Students
               /\ stripeInfo[req[r].studentId][req[r].account] = req[r].customerId)
                => UNCHANGED <<orgCustomers, customerIndex, stripeInfo>>

\* a map request for a student that does not exist writes nothing and is
\* answered with an error
C15_MissingStudentWritesNothing ==
    \A r \in Reqs :
        (req[r].kind \in MapRoutes /\ req[r].studentId \notin Students)
        => /\ WritesBy(r) = {}
           /\ req[r].pc = "done" => req[r].status \in {400, 401, 403, 404, 500}

\* C15: map-customer is an idempotent upsert: a request whose forward or
\* reverse entry already holds the requested value (the same request applied
\* before) leaves the Mapping Store as it is, and a request naming a student
\* that does not exist makes no store write
C15_IdempotentUpsert == [][C15_RepeatIsNoOp]_vars /\ []C15_MissingStudentWritesNothing

C15_Witness ==
    /\ \A r \in {1, 2} :
        /\ req[r].kind = "mapCustomer" /\ req[r].pc = "done" /\ req[r].status = 200
        /\ req[r].account = ORG_A /\ req[r].studentId = "s2" /\ req[r].customerId = 9
        /\ Cardinality(WritesBy(r)) = 2
    /\ orgCustomers[ORG_A]["s2"] = PreMapped
    /\ customerIndex[ORG_A][9] = "s2"

\* C16: when no map-customer request is in flight and no call has failed,
\* every forward entry (student, org) -> customer has the reverse entry
\* (org, customer) -> that student, and every reverse entry names a student
\* whose forward entry for the org is that customer
C16_ReverseIndexConsistent ==
    (/\ \A r \in Reqs : req[r].kind = "mapCustomer" => req[r].pc = "done"
     /\ \A r \in Reqs : \A i \in 1..Len(trace[r]) : trace[r][i].ok)
    => /\ \A o \in Orgs, s \in Students :
            orgCustomers[o][s][o] # NoId
                => customerIndex[o][orgCustomers[o][s][o]] = s
       /\ \A o \in Orgs, c \in CustomerIds :
            customerIndex[o][c] # ""
                => orgCustomers[o][customerIndex[o][c]][o] = c

\* C20: the line item created by a create-invoice request of the multi-org
\* server that was answered with success is on the invoice that request
\* finalized, and nowhere else
C20_ItemOnOwnInvoice ==
    \A r \in Reqs :
        (/\ req[r].kind = "stripeCreateInvoice"
         /\ req[r].pc = "done" /\ req[r].status = 200)
        => /\ items[r].status = "live"
           /\ items[r].invoice = req[r].invoiceId
           /\ invoices[req[r].invoiceId].status = "open"

\* the customers of an account that no request of the server created, in the
\* provider's order, and the positions among them that hold the given email
\* and exactly the given name
Listed(a) ==
    LET NotCreated(c) == c.id \notin Reqs
    IN  SelectSeq(customers[a], NotCreated)
Matches(a, email, name) ==
    {i \in 1..Len(Listed(a)) : Listed(a)[i].email = email /\ Listed(a)[i].name = name}

\* C23: a create-invoice request that read no mapping and whose search
\* succeeded goes on with the first listed customer under the parent's email
\* whose name is exactly the student's, and creates no customer, when there is
\* one; when there is none (and no other request created a customer on the
\* account) it goes on to create a customer, which carries the student's name,
\* the parent's email and the student's id
C23_FirstExactNameMatch ==
    \A r \in Reqs :
        LET a == req[r].account
            s == req[r].studentId
            m == Matches(a, ParentEmail(req[r].parentId), StudentName(s))
            first == CHOOSE i \in m : \A j \in m : i <= j
            others == {i \in 1..Len(customers[a]) : customers[a][i].id \in Reqs \ {r}}
        IN  (/\ req[r].kind = "createInvoice" /\ "customers.list" \in Ops(r)
             /\ \A i \in 1..Len(trace[r]) : trace[r][i].op = "customers.list" => trace[r][i].ok)
            => /\ m # {} => /\ req[r].stripeCustomerId = Listed(a)[first].id
                            /\ "customers.create" \notin Ops(r)
                            /\ req[r].pc # "customersCreate"
               /\ (m = {} /\ others = {})
                    => /\ req[r].pc = "customersCreate" \/ "customers.create" \in Ops(r)
                       /\ \A i \in 1..Len(customers[a]) :
                            customers[a][i].id = r
                                => /\ customers[a][i].name = StudentName(s)
                                   /\ customers[a][i].email = ParentEmail(req[r].parentId)
                                   /\ customers[a][i].student = s

\* the third of three customers under the parent's email is chosen, after one
\* of another name and one under another email, before none
C23_Witness ==
    \E r \in Reqs :
        /\ req[r].kind = "createInvoice" /\ req[r].pc = "done" /\ req[r].status = 200
        /\ req[r].studentId = "s1" /\ req[r].account = ACCOUNT_ID_HALLE
        /\ Len(Listed(ACCOUNT_ID_HALLE)) = 3
        /\ Matches(ACCOUNT_ID_HALLE, "p@x.com", "Ann") = {2, 3}
        /\ Listed(ACCOUNT_ID_HALLE)[1].name = "ann"
        /\ req[r].stripeCustomerId = ListedId(2)
        /\ stripeInfo["s1"][ACCOUNT_ID_HALLE] = ListedId(2)

\* the position of the first call of an operation in the trace of request r,
\* 0 when it made none
FirstCall(r, op) ==
    LET at == {i \in 1..Len(trace[r]) : trace[r][i].op = op}
    IN  IF at = {} THEN 0 ELSE CHOOSE i \in at : \A j \in at : i <= j

\* a create-invoice request that resolved a customer has created a draft or
\* an item only after its write of that customer's id took effect
C24_WriteBeforeInvoice ==
    \A r \in Reqs :
        (/\ req[r].kind = "createInvoice" /\ "customers.list" \in Ops(r)
         /\ (invoices[r] # NoInvoice \/ items[r] # NoItem
                \/ {"invoices.create", "invoiceItems.create"} \cap Ops(r) # {}))
        => /\ Write(r, "stripeInfo", req[r].studentId, req[r].account,
                    req[r].stripeCustomerId) \in writes
           /\ req[r].stripeCustomerId # NoId
           /\ LET u == FirstCall(r, "students.update")
              IN  /\ u > 0 /\ trace[r][u].ok /\ trace[r][u].id = req[r].stripeCustomerId
                  /\ u < FirstCall(r, "invoices.create")
                  /\ FirstCall(r, "invoiceItems.create") # 0
                        => u < FirstCall(r, "invoiceItems.create")

\* an entry that is set stays set, in particular through the failure and the
\* rollback of the request that wrote it, and a create-invoice request that
\* reads the student while the entry is set takes the fast path with it
C24_MappingStays ==
    /\ \A s \in Students, a \in Accounts :
         stripeInfo[s][a] # NoId => stripeInfo'[s][a] # NoId
    /\ \A r \in Reqs :
         (/\ req[r].kind = "createInvoice" /\ req[r].pc = "studentGet"
          /\ req'[r].pc = "parentGet"
          /\ stripeInfo[req[r].studentId][req[r].account] # NoId)
         => /\ req'[r].stripeCustomerId = stripeInfo[req[r].studentId][req[r].account]
            /\ MappingRead(r)' = stripeInfo[req[r].studentId][req[r].account]
    /\ \A r \in Reqs :
         (req[r].kind = "createInvoice" /\ req'[r].pc \in {"customersList", "customersCreate"})
         => MappingRead(r)' = NoId

\* C24: the id of the customer that resolution found or created is written to
\* the student's entry for the account before the draft invoice and the line
\* item are created; the entry is never cleared afterwards, also when the
\* invoice workflow fails; a later request for the pair reads it and skips the
\* search
C24_MappingPersistedFirst == []C24_WriteBeforeInvoice /\ [][C24_MappingStays]_vars

\* the first request resolved and saved a customer and then failed at
\* finalization; the second, for the same pair, read the id and succeeded
\* without searching
C24_Witness ==
    /\ req[1].kind = "createInvoice" /\ req[1].pc = "done" /\ req[1].status = 500
    /\ req[1].failedAt = "finalizeInvoice" /\ "customers.create" \in Ops(1)
    /\ req[2].kind = "createInvoice" /\ req[2].pc = "done" /\ req[2].status = 200
    /\ req[2].studentId = req[1].studentId /\ req[2].account = req[1].account
    /\ MappingRead(2) = 1 /\ "customers.list" \notin Ops(2)
    /\ stripeInfo[req[1].studentId][req[1].account] = 1
    /\ invoices[2].customer = 1

ProviderOps ==
    {"customers.list", "customers.create", "invoices.create", "invoiceItems.create",
     "invoices.retrieve", "invoices.finalizeInvoice", "invoiceItems.del", "invoices.del"}

\* C25: every provider call of a create-invoice request, the rollback deletes
\* included, went to the account the request named, and the customer, draft
\* and item it created are on that account and on no other
C25_CallsOnNamedAccount ==
    \A r \in Reqs :
        req[r].kind = "createInvoice"
        => /\ \A i \in 1..Len(trace[r]) :
                trace[r][i].op \in ProviderOps => trace[r][i].acct = req[r].account
           /\ invoices[r] # NoInvoice => invoices[r].acct = req[r].account
           /\ items[r] # NoItem => items[r].acct = req[r].account
           /\ \A a \in Accounts : \A i \in 1..Len(customers[a]) :
                customers[a][i].id = r => a = req[r].account

\* a request for the second account that searched, created its customer,
\* draft and item, failed at finalization and rolled both back
C25_Witness ==
    \E r \in Reqs :
        /\ req[r].kind = "createInvoice" /\ req[r].account = ACCOUNT_ID_STATE48
        /\ req[r].pc = "done" /\ req[r].failedAt = "finalizeInvoice"
        /\ ProviderOps \subseteq Ops(r)
        /\ invoices[r].acct = ACCOUNT_ID_STATE48 /\ invoices[r].status = "deleted"
        /\ \E i \in 1..Len(customers[ACCOUNT_ID_STATE48]) :
              customers[ACCOUNT_ID_STATE48][i].id = r

\* C27: a step of the sync leaves the provider's customers as they are, and an
\* update of the sync that takes effect leaves an entry that is already set
\* with the id it holds
C27_SyncKeepsSetEntries ==
    [][\A r \in Reqs : \A p \in Pairs :
         (/\ req[r].kind = "sync" /\ req[r].pc = "awaitAll"
          /\ req[r].tasks[p].st = "update" /\ req'[r].tasks[p].st = "updated")
         => /\ customers' = customers
            /\ stripeInfo[p[1]][p[2]] # NoId
                  => stripeInfo'[p[1]][p[2]] = stripeInfo[p[1]][p[2]]]_vars

\* request r created a customer for its pair and ended before its id was saved
CreatedUnsaved(r) ==
    /\ req[r].kind = "createInvoice" /\ req[r].pc = "done"
    /\ \E i \in 1..Len(trace[r]) :
          trace[r][i].op = "customers.create" /\ trace[r][i].ok
    /\ WritesBy(r) = {}

\* request q searched for the pair of request r after r's customer existed
RetryOf(q, r) ==
    /\ q # r /\ req[q].kind = "createInvoice"
    /\ req[q].studentId = req[r].studentId /\ req[q].parentId = req[r].parentId
    /\ req[q].account = req[r].account

\* C28: when a create-invoice request created a customer and ended without
\* saving its id, a search made afterwards by a request for the same student,
\* parent and account chooses an existing customer of the pair: the retry
\* creates no customer, and the one it goes on with is the unsaved one unless
\* an equally named customer precedes it in the provider's list
C28_RetryReusesCustomer ==
    [][\A r, q \in Reqs :
         (/\ CreatedUnsaved(r) /\ RetryOf(q, r)
          /\ req[q].pc = "customersList" /\ req'[q].pc # "customersList"
          /\ req'[q].failedAt = "")
         => /\ req'[q].pc = "studentUpdate"
            /\ req'[q].stripeCustomerId # NoId
            /\ \E i \in 1..Len(customers[req[r].account]) :
                 /\ customers[req[r].account][i].id = req'[q].stripeCustomerId
                 /\ customers[req[r].account][i].name = StudentName(req[r].studentId)
                 /\ customers[req[r].account][i].email = ParentEmail(req[r].parentId)
            /\ Listed(req[r].account) = <<>> => req'[q].stripeCustomerId = r]_vars

\* the first request created customer 1 and failed to save it; the retry found
\* it, saved it and invoiced it, and the account holds no second customer
C28_Witness ==
    /\ CreatedUnsaved(1) /\ req[1].status = 500 /\ req[1].failedAt = "studentUpdate"
    /\ RetryOf(2, 1) /\ req[2].pc = "done" /\ req[2].status = 200
    /\ "customers.create" \notin Ops(2) /\ "customers.list" \in Ops(2)
    /\ req[2].stripeCustomerId = 1 /\ invoices[2].customer = 1
    /\ stripeInfo[req[1].studentId][req[1].account] = 1
    /\ Len(customers[req[1].account]) = 1

\* the signature of webhook request r was verified
Verified(r) ==
    /\ req[r].kind = "webhook" /\ Len(trace[r]) >= 1
    /\ trace[r][1].op = "constructEvent" /\ trace[r][1].ok

\* C29: a webhook request whose signature verified is answered 200 (the
\* acknowledgement) whenever it is answered, also after a failed read of the
\* reverse index or a failed status write; it writes at most the status
\* record of the student the reverse index named, and nothing when the
\* index has no entry for the event's customer
C29_AlwaysAcknowledged ==
    \A r \in Reqs :
        Verified(r)
        => /\ req[r].pc = "done" => req[r].status = 200
           /\ req[r].failedAt \in {"", "idxGet", "invSet"}
           /\ req[r].failedAt # "" => req[r].pc = "done" /\ WritesBy(r) = {}
           /\ req[r].studentId = "" => WritesBy(r) = {} /\ req[r].pc # "invSet"
           /\ WritesBy(r) \subseteq
                 {Write(r, "billing", req[r].studentId, req[r].account, req[r].event.invoice)}

\* a verified event whose status write failed was acknowledged
C29_Witness ==
    \E r \in Reqs :
        /\ Verified(r) /\ req[r].pc = "done" /\ req[r].status = 200
        /\ req[r].failedAt = "invSet" /\ req[r].studentId = "s2"
        /\ trace[r][Len(trace[r])] = Call("billing.set", ORG_A, req[r].event.invoice, FALSE)

\* request r of a caller without the admin claim is at its claim-setting call
\* and the call grants the claim
BootstrapGrant(r) ==
    /\ req[r].kind = "setAdmin" /\ req[r].token = "user"
    /\ req[r].pc = "setClaims"
    /\ req'[r].pc = "done" /\ req'[r].status = 200

\* request q of another caller without the admin claim was granted the claim,
\* and that caller is a listed user holding it
BootstrappedBefore(q, r) ==
    /\ req[q].kind = "setAdmin" /\ req[q].token = "user"
    /\ req[q].pc = "done" /\ req[q].status = 200
    /\ req[q].uid # req[r].uid
    /\ req[q].uid \in ListUsers(ListUsersMax)
    /\ users[req[q].uid].admin

\* C21: at most one caller is promoted through the bootstrap path: the
\* claim-setting call of a caller without the admin claim never grants the
\* claim while another caller promoted the same way holds it
C21_OneBootstrap ==
    [][\A r \in Reqs : BootstrapGrant(r)
         => \A q \in Reqs \ {r} : ~BootstrappedBefore(q, r)]_vars

\* C22: the bootstrap test of a set-admin request lets a caller without the
\* admin claim through only when no user holds the admin claim
C22_BootstrapOnlyWithoutAdmins ==
    [][\A r \in Reqs :
         (/\ req[r].kind = "setAdmin" /\ req[r].token = "user"
          /\ req[r].pc = "listUsers" /\ req'[r].pc = "setClaims")
         => /\ req[r].target = req[r].uid
            /\ Admins = {}]_vars

\* C26: a step of a set-admin or delete-user request taken while some user
\* holds the admin claim leaves some user holding it
C26_AdminRemains ==
    [][Admins # {} => Admins' # {}]_vars

\* request r came without a token or with a token that fails verification
Unverified(r) == req[r].kind # "none" /\ req[r].token \in {"none", "bad"}

\* request r was answered without any step of a handler body: no awaited call,
\* no write, no failure point
NoHandlerBody(r) ==
    /\ req[r].pc = "done"
    /\ req[r].failedAt = ""
    /\ trace[r] = <<>>
    /\ WritesBy(r) = {}

\* request r is on the server that keeps running without the SDK, and the SDK
\* is missing
SdkMissing(r) == req[r].kind = "deleteUserAdminApp" /\ ~adminApp

\* the step on which an unverified request arrives
UnverifiedArrives(r) ==
    /\ req[r].pc = "idle" /\ req'[r].pc # "idle"
    /\ req'[r].token \in {"none", "bad"}

\* C30 as stated: every request without a token is answered 401 and every
\* request whose token fails verification is answered 403, without any step of
\* the handler body
C30_Unverified401Or403 ==
    \A r \in Reqs : Unverified(r)
        => /\ NoHandlerBody(r)
           /\ req[r].status = IF req[r].token = "none" THEN 401 ELSE 403

\* C30: on every route behind authenticateToken the handler body runs only
\* after the token of the request was verified: a request without a token is
\* answered 401 and one whose token fails verification 403, except that the
\* server that keeps running without the SDK answers every request 500; in all
\* these cases there is no provider call, no store access, and the step changes
\* neither the store, the provider's objects nor the users
C30_VerifiedBeforeHandler ==
    /\ [](\A r \in Reqs :
            /\ (Unverified(r) /\ ~SdkMissing(r))
                 => /\ NoHandlerBody(r)
                    /\ req[r].status = IF req[r].token = "none" THEN 401 ELSE 403
            /\ SdkMissing(r) => NoHandlerBody(r) /\ req[r].status = 500)
    /\ [][\A r \in Reqs : UnverifiedArrives(r)
            => UNCHANGED <<users, stripeInfo, orgStore, customers, invoices, items>>]_vars

\* one request without a token was answered 401 and another, with a token that
\* fails verification, 403
C30_Witness ==
    \E r, q \in Reqs :
        /\ req[r].kind # "none" /\ req[r].token = "none"
        /\ req[r].pc = "done" /\ req[r].status = 401
        /\ req[q].kind # "none" /\ req[q].token = "bad"
        /\ req[q].pc = "done" /\ req[q].status = 403

Next == \E r \in Reqs : CreateInvoice(r) \/ MapStripeCustomer(r) \/ GetStudent(r) \/ Sync(r)

NextOrg == \E r \in Reqs : Webhook(r) \/ MapCustomer(r) \/ StripeCreateInvoice(r)

\* both servers, fully configured, over the one store and the one provider
InitAll ==
    /\ keys = [a \in Accounts |-> TRUE]
    /\ orgEnv = FullOrgEnv
    /\ adminApp = TRUE
    /\ InitData
    /\ NoDeliveries
    /\ NoCalc
    /\ users = FirstUserAdmin

Spec == Init /\ [][Next]_vars

SpecOrg == InitOrg /\ [][NextOrg]_vars

SpecAll == InitAll /\ [][Next \/ NextOrg]_vars

SpecKey == InitKey /\ [][FinalizeTwice]_vars

\* create-invoice against each list of customers the first account may hold
InitResolve ==
    /\ keys = [a \in Accounts |-> TRUE]
    /\ orgEnv = FullOrgEnv
    /\ adminApp = TRUE
    /\ InitRecords
    /\ \E list \in CustomerLists :
         customers = [a \in Accounts |-> IF a = ACCOUNT_ID_HALLE THEN list ELSE <<PreCustomer>>]
    /\ NoDeliveries
    /\ NoCalc
    /\ users = FirstUserAdmin

NextResolve == \E r \in ResolveReqs : CreateInvoice(r)

\* the sync and the manual mapping, started when the second account also holds
\* a customer that an earlier create-invoice request for the first student
\* created without its id having been saved
UnsavedCustomer == [id |-> 1, email |-> "p@x.com", name |-> "Ann", student |-> "s1"]
InitSync ==
    /\ keys = [a \in Accounts |-> TRUE]
    /\ orgEnv = FullOrgEnv
    /\ adminApp = TRUE
    /\ InitRecords
    /\ customers = [a \in Accounts |-> IF a = ACCOUNT_ID_STATE48
                                       THEN <<PreCustomer, UnsavedCustomer>> ELSE <<>>]
    /\ NoDeliveries
    /\ NoCalc
    /\ users = FirstUserAdmin

NextSync == \E r \in Reqs : Sync(r) \/ MapStripeCustomer(r)

\* the user-management routes, started with no admin, with the first user, the
\* last user, or the first two users holding the admin claim
AdminSets == {{}, {1}, {NumUsers}, {1, 2}}
InitAdmin ==
    /\ keys = [a \in Accounts |-> TRUE]
    /\ orgEnv = FullOrgEnv
    /\ adminApp = TRUE
    /\ InitData
    /\ NoDeliveries
    /\ NoCalc
    /\ \E A \in AdminSets : users = [u \in Uids |-> [exists |-> TRUE, admin |-> u \in A]]

NextAdmin == \E r \in Reqs : SetAdmin(r) \/ DeleteUser(r)

SpecAdmin == InitAdmin /\ [][NextAdmin]_vars

\* every route behind authenticateToken, the SDK initialised or not
InitGuarded ==
    /\ keys = [a \in Accounts |-> TRUE]
    /\ orgEnv = FullOrgEnv
    /\ adminApp \in BOOLEAN
    /\ InitData
    /\ NoDeliveries
    /\ NoCalc
    /\ users = FirstUserAdmin

NextGuarded == Next \/ NextAdmin \/ \E r \in Reqs : DeleteUserAdminApp(r)

SpecGuarded == InitGuarded /\ [][NextGuarded]_vars

SpecSync == InitSync /\ [][NextSync]_vars

SpecResolve == InitResolve /\ [][NextResolve]_vars

\* create-invoice requests whose callers may disconnect; every awaited call
\* of a started handler settles, so the handler's next step is taken
SpecDisconnect ==
    /\ InitAll /\ [][NextDisconnect]_vars
    /\ \A r \in DisconnectReqs : WF_vars(CreateInvoice(r))

====
